---- MODULE Spec2Model ----
(***************************************************************************)
(* Terminal-injection engine of Claude-Code-Remote.                        *)
(*                                                                         *)
(*   TmuxInjector        src/src/relay/tmux-injector.js                    *)
(*   ControllerInjector  src/src/utils/controller-injector.js              *)
(*   InputGuard          src/src/utils/webhook-utils.js, shared.js         *)
(*   RateLimiter         src/src/utils/webhook-utils.js                    *)
(*                                                                         *)
(* Strings are sequences of characters (one-character strings).  A         *)
(* JavaScript value is a record: Str(s) for a string, Null for null or     *)
(* undefined.                                                              *)
(***************************************************************************)
EXTENDS Integers, Sequences, FiniteSets, TLC

(***************************************************************************)
(* Characters                                                              *)
(***************************************************************************)
LowerSeq == <<"a","b","c","d","e","f","g","h","i","j","k","l","m",
              "n","o","p","q","r","s","t","u","v","w","x","y","z">>

UpperSeq == <<"A","B","C","D","E","F","G","H","I","J","K","L","M",
              "N","O","P","Q","R","S","T","U","V","W","X","Y","Z">>

Lower == {LowerSeq[i] : i \in 1..Len(LowerSeq)}

Upper == {UpperSeq[i] : i \in 1..Len(UpperSeq)}

Digit == {"0","1","2","3","4","5","6","7","8","9"}

\* /\s/ as String.prototype.trim sees it, restricted to the characters used
Whitespace == {" ", "\t", "\n", "\r"}

\* the backquote character, which a TLA+ string cannot hold
BACKQUOTE == "BACKQUOTE"

\* the character class of shared.js sanitizeSessionName: ; backquote $ ( ) |
\* newline CR & < >
DangerousChars == {";", BACKQUOTE, "$", "(", ")", "|", "\n", "\r", "&", "<", ">"}

\* the character class [a-zA-Z0-9_-] of ControllerInjector._sanitizeSessionName
IdentChars == Lower \cup Upper \cup Digit \cup {"_", "-"}

\* characters outside ASCII that a TLA+ string cannot hold: U+017F (long s),
\* U+0131 (dotless i), U+00DF (sharp s)
LONG_S == "LONG_S"

DOTLESS_I == "DOTLESS_I"

SHARP_S == "SHARP_S"

\* String.prototype.toUpperCase on one character: the uppercase mapping of
\* the Unicode character database, which takes long s to S, dotless i to I
\* and sharp s to the two characters SS
UpperChar(c) ==
    IF c \in Lower
    THEN <<UpperSeq[CHOOSE i \in 1..Len(LowerSeq) : LowerSeq[i] = c]>>
    ELSE IF c = LONG_S THEN <<"S">>
    ELSE IF c = DOTLESS_I THEN <<"I">>
    ELSE IF c = SHARP_S THEN <<"S", "S">>
    ELSE <<c>>

RECURSIVE toUpperCase(_)
toUpperCase(s) ==
    IF s = <<>> THEN <<>>
    ELSE UpperChar(Head(s)) \o toUpperCase(Tail(s))

\* str.replace(/[class]/g, ''): the characters of str outside the class, in order
RECURSIVE RemoveChars(_, _)
RemoveChars(str, class) ==
    IF str = <<>> THEN <<>>
    ELSE IF Head(str) \in class THEN RemoveChars(Tail(str), class)
    ELSE <<Head(str)>> \o RemoveChars(Tail(str), class)

\* str.replace(/[^class]/g, ''): the characters of str inside the class, in order
RECURSIVE KeepChars(_, _)
KeepChars(str, class) ==
    IF str = <<>> THEN <<>>
    ELSE IF Head(str) \in class THEN <<Head(str)>> \o KeepChars(Tail(str), class)
    ELSE KeepChars(Tail(str), class)

\* the first index from i upwards that holds no whitespace, Len(s) + 1 if none
RECURSIVE trimStart(_, _)
trimStart(s, i) ==
    IF i > Len(s) THEN i
    ELSE IF s[i] \in Whitespace THEN trimStart(s, i + 1)
    ELSE i

\* the last index from i downwards that holds no whitespace, 0 if none
RECURSIVE trimEnd(_, _)
trimEnd(s, i) ==
    IF i < 1 THEN i
    ELSE IF s[i] \in Whitespace THEN trimEnd(s, i - 1)
    ELSE i

\* String.prototype.trim: drop leading and trailing whitespace
trim(s) == SubSeq(s, trimStart(s, 1), trimEnd(s, Len(s)))

(***************************************************************************)
(* JavaScript values                                                       *)
(***************************************************************************)
Str(s) == [type |-> "string", val |-> s]

Null == [type |-> "null"]

IsString(v) == v.type = "string"

\* !v for a value that is a string or null/undefined
Falsy(v) == ~IsString(v) \/ v.val = <<>>

(***************************************************************************)
(* InputGuard                                                              *)
(***************************************************************************)
MAX_COMMAND_LENGTH == 10000

TokenLength == 8

\* TOKEN_REGEX = /^[A-Z0-9]{8}$/
TOKEN_REGEX(s) ==
    /\ Len(s) = TokenLength
    /\ \A i \in 1..Len(s) : s[i] \in Upper \cup Digit

\* validateToken: the uppercased token, or Null
validateToken(token) ==
    IF Falsy(token) THEN Null
    ELSE LET upperToken == toUpperCase(token.val) IN
         IF TOKEN_REGEX(upperToken) THEN Str(upperToken) ELSE Null

\* validateCommand rejecting a trimmed text of exactly the maximum length
validateCommand_BelowMax(command) ==
    IF Falsy(command)
    THEN [valid |-> FALSE, error |-> "Command must be a non-empty string"]
    ELSE LET trimmed == trim(command.val) IN
         IF Len(trimmed) = 0
         THEN [valid |-> FALSE, error |-> "Command cannot be empty"]
         ELSE IF Len(trimmed) >= MAX_COMMAND_LENGTH
         THEN [valid |-> FALSE, error |-> "Command too long"]
         ELSE [valid |-> TRUE, command |-> trimmed]

\* validateCommand: {valid, error?, command?}
validateCommand(command) ==
    IF Falsy(command)
    THEN [valid |-> FALSE, error |-> "Command must be a non-empty string"]
    ELSE LET trimmed == trim(command.val) IN
         IF Len(trimmed) = 0
         THEN [valid |-> FALSE, error |-> "Command cannot be empty"]
         ELSE IF Len(trimmed) > MAX_COMMAND_LENGTH
         THEN [valid |-> FALSE, error |-> "Command too long"]
         ELSE [valid |-> TRUE, command |-> trimmed]

\* shared.js sanitizeSessionName: '' for a non-string or empty name, else the
\* name without the dangerous characters
sanitizeSessionName(name) ==
    IF Falsy(name) THEN <<>>
    ELSE RemoveChars(name.val, DangerousChars)

\* ControllerInjector._sanitizeSessionName: the name without every character
\* outside [a-zA-Z0-9_-]; throws on a non-string, empty or all-invalid name
_sanitizeSessionName(name) ==
    IF Falsy(name)
    THEN [threw |-> TRUE, error |-> "Invalid session name"]
    ELSE LET sanitized == KeepChars(name.val, IdentChars) IN
         IF sanitized = <<>>
         THEN [threw |-> TRUE, error |-> "Session name contains no valid characters"]
         ELSE [threw |-> FALSE, name |-> sanitized]

(***************************************************************************)
(* Pane text.  handleConfirmations looks at the captured text only through *)
(* output.includes(literal); a text is modelled by the set of the markers  *)
(* it shows, one marker per group of literals that the code tests in one   *)
(* disjunction and nowhere else:                                           *)
(*   proceed    'Do you want to proceed?'                                  *)
(*   opt1       '1. Yes'                                                   *)
(*   opt2       '2. Yes, and don't ask again'                              *)
(*   sel1       the highlighted '> 1. Yes' (either arrow glyph)            *)
(*   yn         '(y/n)'                                                    *)
(*   ynBracket  '[Y/n]' or '[y/N]'                                         *)
(*   enter      'Press Enter to continue', 'Enter to confirm',             *)
(*              'Press Enter'                                              *)
(*   busy       one of the four processing indicators                      *)
(*   prompt     the input box or '> '                                      *)
(*   error      'Error:', 'error:' or 'failed'                             *)
(***************************************************************************)
Markers == {"proceed", "opt1", "opt2", "sel1", "yn", "ynBracket",
            "enter", "busy", "prompt", "error"}

\* the largest number of markers one captured text holds
MaxMarkers == 2

\* the multi-option confirmation dialog as the target program shows it
FullDialog == {"proceed", "opt1", "opt2"}

\* the captured texts: the dialog, and every text of at most MaxMarkers
\* markers
Texts == {FullDialog} \cup {t \in SUBSET Markers : Cardinality(t) <= MaxMarkers}

\* String.prototype.includes on a captured text; the highlighted '1. Yes'
\* holds the literal '1. Yes'
includes(output, marker) ==
    \/ marker \in output
    \/ marker = "opt1" /\ "sel1" \in output

\* what getCaptureOutput can resolve to
Captures == {[success |-> FALSE, output |-> {}]}
            \cup {[success |-> TRUE, output |-> t] : t \in Texts}

\* one captured text per branch of the poll loop, and a failed capture
FewCaptures == {[success |-> FALSE, output |-> {}]}
               \cup {[success |-> TRUE, output |-> t] :
                       t \in {FullDialog, {"sel1"},
                              {"yn"}, {"enter"}, {"busy"}, {"prompt"},
                              {"error"}, {}}}

\* the captures of the concurrent runs: a failed one, a multi-option
\* confirmation, an unrecognized text, a quiescent prompt
ConcCaptures == {[success |-> FALSE, output |-> {}]}
                \cup {[success |-> TRUE, output |-> t] :
                        t \in {FullDialog, {}, {"prompt"}}}

(***************************************************************************)
(* TmuxInjector                                                            *)
(***************************************************************************)
\* handleConfirmations: const maxAttempts = 8
maxAttempts == 8

\* the number of concurrent injectCommandFull calls on one TmuxInjector
NumReq == 2

Reqs == 1..NumReq

\* the default session name of the TmuxInjector constructor
DefaultTaskping == <<"c","l","a","u","d","e","-","t","a","s","k","p","i","n","g">>

\* constructor arguments: absent, a clean name, a name with a dangerous
\* character and a space, a name of dangerous characters only
RawNames == {Null,
             Str(<<"w","o","r","k","-","1">>),
             Str(<<"a",";","b"," ","c">>),
             Str(<<";",";">>)}

\* injectCommandFull arguments: a well-formed and a malformed token; a clean
\* command, one with surrounding blanks and a blank one
GoodToken == Str(<<"A","B","C","D","1","2","3","4">>)

Tokens == {GoodToken, Str(<<"T","E","S","T","1","2","3">>)}

GoodCommand == Str(<<"l","s">>)

Commands == {GoodCommand, Str(<<" ","l","s"," ">>), Str(<<" ">>)}

VARIABLES
    rawName,        \* the sessionName argument of the constructor
    sessionName,    \* this.sessionName
    tmuxInstalled,  \* environment: `which tmux` succeeds
    sessionUp,      \* environment: the tmux session exists
    starts,         \* environment: start command -> whether new-session
                    \* with it succeeds
    pc,             \* per request: the await at which the request is suspended
    entry,          \* per request: the method the caller invoked
    token,          \* per request: argument of injectCommandFull
    command,        \* per request: argument of injectCommandFull
    tmuxAvailable,  \* per request: local of injectCommandFull
    sessionExists,  \* per request: local of injectCommandFull
    createResult,   \* per request: local of injectCommandFull
    injectResult,   \* per request: what injectCommand resolved to
    attempts,       \* per request: local of handleConfirmations
    capture,        \* per request: local of handleConfirmations, last poll
    rule,           \* per request: the branch taken at the last poll
    keys,           \* per request: send-keys payloads of the last poll
    answerOk,       \* per request: what _sendKeysSync returned for the
                    \* answer key of the last poll
    polled,         \* per request: number of polls made
    unrecognized,   \* per request: number of latest polls in a row that
                    \* matched no branch
    cmdKeys,        \* per request: send-keys calls of injectCommand's 3 steps
    made,           \* per request: the kinds of external process calls made
    creations,      \* per request: new-session calls made
    result,         \* per request: what injectCommandFull returned
    logFile         \* logs/tmux-injection.log, a sequence of entries

tmuxVars == <<rawName, starts, answerOk, sessionName, tmuxInstalled, sessionUp, pc, entry, token, command,
              tmuxAvailable, sessionExists, createResult, injectResult, attempts,
              capture, rule, keys, polled, unrecognized, cmdKeys, made,
              creations, result, logFile>>

\* RateLimiter
VARIABLES
    now,            \* Date.now()
    sessionMap      \* rateLimiter.sessionMap: key -> timestamps, a partial map

\* ControllerInjector
VARIABLES
    mode,           \* this.mode: "tmux" or "pty"
    ctlCommand,     \* last injectCommand call: its command argument
    ctlSessionArg,  \* last injectCommand call: its sessionName argument
    ctlStatus,      \* last injectCommand call: "returned" or "threw"
    ctlError,       \* last injectCommand call: which error it threw
    ctlSession,     \* last injectCommand call: the sanitized session name
    ctlLimiter,     \* last injectCommand call: what checkAndRecord returned
    ctlCalls        \* last injectCommand call: its external process calls

\* a RateLimiter called directly
VARIABLES
    rlOp,           \* last call: "check", "clear" or "clearAll"
    rlKey,          \* last call: its sessionKey argument
    rlTime,         \* last call: Date.now() when it ran
    rlResult,       \* last call: what checkAndRecord returned
    rlBefore,       \* last call: sessionMap as the call found it
    rlLog           \* the checkAndRecord calls made and not cleared since

\* SmartInjector
VARIABLES
    smPc,           \* injectCommand call: "idle", "trying" (suspended in the
                    \* loop, about to call a method) or "done"
    smToken,        \* injectCommand call: its token argument
    smCommand,      \* injectCommand call: its command argument
    smIndex,        \* injectCommand call: the loop variable i, counted from 1
    smTried,        \* injectCommand call: the methods called, with how each ended
    smLog,          \* injectCommand call: what it wrote to this.log
    smResult        \* injectCommand call: "pending", "true", "false", or
                    \* "rejected" when an exception leaves the call

smartVars == <<smPc, smToken, smCommand, smIndex, smTried, smLog, smResult>>

\* the functions of webhook-utils.js and shared.js, called directly
VARIABLES
    utArg,          \* the argument of the calls
    utFn,           \* last call: the function called
    utOut           \* last call: what it returned

utilVars == <<utArg, utFn, utOut>>

\* the Telegram handlers: the polling bot (telegram-bot.js) and
\* TelegramWebhookHandler (webhook.js)
VARIABLES
    tgConfig,       \* which program runs, and config.whitelist
    tgSessions,     \* the stored sessions: token -> session, a partial map
    tgUpdate,       \* the last update handled
    tgSteps         \* what the handler did with it, in order

tgVars == <<tgConfig, tgSessions, tgUpdate, tgSteps>>

\* SmartInjector's temp directory and its cleanup
VARIABLES
    files,          \* this.tempDir: file name -> mtime, a partial map
    cleanupInterval,\* this.cleanupInterval is set
    swPc,           \* the cleanup() call running: "idle", "stat" or "unlink"
    swNow,          \* cleanup(): its local now
    swFiles         \* cleanup(): the files of its loop not visited yet

sweepVars == <<files, cleanupInterval, swPc, swNow, swFiles>>

ctlVars == <<now, sessionMap, mode, ctlCommand, ctlSessionArg, ctlStatus,
             ctlError, ctlSession, ctlLimiter, ctlCalls,
             rlOp, rlKey, rlTime, rlResult, rlBefore, rlLog, smartVars,
             utilVars, tgVars, sweepVars>>

vars == <<tmuxVars, ctlVars>>

NoResult == [success |-> FALSE, error |-> "pending"]

NoCapture == [success |-> FALSE, output |-> {}]

\* new TmuxInjector(logger, name): the state after construction
TmuxInjectorNew(name) ==
    /\ rawName = name
    /\ sessionName = sanitizeSessionName(IF Falsy(name) THEN Str(DefaultTaskping)
                                         ELSE name)

\* the start commands of createClaudeSession: the primary and the fallback
StartCommands == {"clauderun", "claude"}

\* a TmuxInjector constructed with one of the names, and no call made yet;
\* envs: whether tmux is installed, and whether the session exists
InitTmux(names, envs) ==
    /\ \E name \in names : TmuxInjectorNew(name)
    /\ tmuxInstalled \in envs
    /\ sessionUp \in envs
    /\ starts \in [StartCommands -> envs]
    /\ pc = [r \in Reqs |-> "idle"]
    /\ entry = [r \in Reqs |-> "none"]
    /\ token = [r \in Reqs |-> Null]
    /\ command = [r \in Reqs |-> Null]
    /\ tmuxAvailable = [r \in Reqs |-> FALSE]
    /\ sessionExists = [r \in Reqs |-> FALSE]
    /\ createResult = [r \in Reqs |-> NoResult]
    /\ injectResult = [r \in Reqs |-> NoResult]
    /\ attempts = [r \in Reqs |-> 0]
    /\ capture = [r \in Reqs |-> NoCapture]
    /\ rule = [r \in Reqs |-> "unset"]
    /\ keys = [r \in Reqs |-> <<>>]
    /\ answerOk = [r \in Reqs |-> TRUE]
    /\ polled = [r \in Reqs |-> 0]
    /\ unrecognized = [r \in Reqs |-> 0]
    /\ cmdKeys = [r \in Reqs |-> <<>>]
    /\ made = [r \in Reqs |-> {}]
    /\ creations = [r \in Reqs |-> 0]
    /\ result = [r \in Reqs |-> NoResult]
    /\ logFile = <<>>

\* send-keys payloads
KeyClear == <<"C","-","u">>

KeyExecute == <<"C","-","m">>

KeyEnter == <<"E","n","t","e","r">>

Set(f, r, v) == [f EXCEPT ![r] = v]

Result(ok, err, msg, sess) ==
    [success |-> ok, error |-> err, message |-> msg, session |-> sess]

\* one _sendKeysSync call: the payload and what the call returned
Sent(payload, ok) == [payload |-> payload, ok |-> ok]

\* the branches with the error test moved ahead of the input prompt test
matchedRule_ErrorFirst(output) ==
    IF /\ includes(output, "proceed")
       /\ (includes(output, "opt1") \/ includes(output, "opt2"))
    THEN "multi"
    ELSE IF includes(output, "sel1")
    THEN "single"
    ELSE IF includes(output, "yn") \/ includes(output, "ynBracket")
    THEN "yesno"
    ELSE IF includes(output, "enter")
    THEN "enter"
    ELSE IF includes(output, "busy")
    THEN "busy"
    ELSE IF includes(output, "error")
    THEN "error"
    ELSE IF /\ includes(output, "prompt")
            /\ ~includes(output, "proceed")
            /\ ~includes(output, "opt1")
            /\ ~includes(output, "yn")
    THEN "prompt"
    ELSE "none"

\* the branches with the yes/no test looking for (y/n) only
matchedRule_ParenOnly(output) ==
    IF /\ includes(output, "proceed")
       /\ (includes(output, "opt1") \/ includes(output, "opt2"))
    THEN "multi"
    ELSE IF includes(output, "sel1")
    THEN "single"
    ELSE IF includes(output, "yn")
    THEN "yesno"
    ELSE IF includes(output, "enter")
    THEN "enter"
    ELSE IF includes(output, "busy")
    THEN "busy"
    ELSE IF /\ includes(output, "prompt")
            /\ ~includes(output, "proceed")
            /\ ~includes(output, "opt1")
            /\ ~includes(output, "yn")
    THEN "prompt"
    ELSE IF includes(output, "error")
    THEN "error"
    ELSE "none"

\* the branch of one poll of handleConfirmations, in the order of its tests
matchedRule(output) ==
    IF /\ includes(output, "proceed")
       /\ (includes(output, "opt1") \/ includes(output, "opt2"))
    THEN "multi"
    ELSE IF includes(output, "sel1")
    THEN "single"
    ELSE IF includes(output, "yn") \/ includes(output, "ynBracket")
    THEN "yesno"
    ELSE IF includes(output, "enter")
    THEN "enter"
    ELSE IF includes(output, "busy")
    THEN "busy"
    ELSE IF /\ includes(output, "prompt")
            /\ ~includes(output, "proceed")
            /\ ~includes(output, "opt1")
            /\ ~includes(output, "yn")
    THEN "prompt"
    ELSE IF includes(output, "error")
    THEN "error"
    ELSE "none"

\* the answer keys with option 1 chosen in the multi-option branch
answerKey_FirstOption(m) ==
    CASE m = "multi" -> <<"1">>
      [] m = "single" -> <<"1">>
      [] m = "yesno" -> <<"y">>

\* the answer keys with option 2 chosen in the single-option branch
answerKey_SingleTwo(m) ==
    CASE m = "multi" -> <<"2">>
      [] m = "single" -> <<"2">>
      [] m = "yesno" -> <<"y">>

\* the key handleConfirmations sends first in a branch that answers
answerKey(m) ==
    CASE m = "multi" -> <<"2">>
      [] m = "single" -> <<"1">>
      [] m = "yesno" -> <<"y">>

\* handleConfirmations after its loop: the final state check; m is the set of
\* external calls request r has made by now
AfterLoop(r, m) ==
    /\ attempts' = attempts
    /\ pc' = Set(pc, r, "finalAwait")
    /\ made' = Set(made, r, m \cup {"capture-pane"})

\* the loop test as attempts <= maxAttempts
WhileTest_AtMost(r, m) ==
    IF attempts[r] <= maxAttempts
    THEN /\ attempts' = Set(attempts, r, attempts[r] + 1)
         /\ pc' = Set(pc, r, "pollWait")
         /\ made' = Set(made, r, m)
    ELSE AfterLoop(r, m)

\* while (attempts < maxAttempts) { attempts++; await 1500 ms ...
WhileTest(r, m) ==
    IF attempts[r] < maxAttempts
    THEN /\ attempts' = Set(attempts, r, attempts[r] + 1)
         /\ pc' = Set(pc, r, "pollWait")
         /\ made' = Set(made, r, m)
    ELSE AfterLoop(r, m)

\* step 1 going on to step 2 whatever the send returned
ClearInput_GoOn(r, ok) ==
    /\ cmdKeys' = Set(cmdKeys, r, <<Sent(KeyClear, ok)>>)
    /\ made' = Set(made, r, made[r] \cup {"send-keys"})
    /\ pc' = Set(pc, r, "clearWait")
    /\ UNCHANGED injectResult

\* injectCommand up to its first await: step 1, clear the input field
ClearInput(r, ok) ==
    /\ cmdKeys' = Set(cmdKeys, r, <<Sent(KeyClear, ok)>>)
    /\ made' = Set(made, r, made[r] \cup {"send-keys"})
    /\ IF ok
       THEN /\ pc' = Set(pc, r, "clearWait")
            /\ UNCHANGED injectResult
       ELSE /\ pc' = Set(pc, r, "injectAwait")
            /\ injectResult' = Set(injectResult, r,
                   Result(FALSE, "Failed to clear input", "", <<>>))

\* injectCommandFull(token, command) up to its first await
InjectCommandFull(r, tok, cmd) ==
    /\ pc[r] = "idle"
    /\ entry' = Set(entry, r, "injectCommandFull")
    /\ token' = Set(token, r, tok)
    /\ command' = Set(command, r, cmd)
    /\ made' = Set(made, r, made[r] \cup {"which"})
    /\ tmuxAvailable' = Set(tmuxAvailable, r, tmuxInstalled)
    /\ pc' = Set(pc, r, "availAwait")
    /\ UNCHANGED ctlVars
    /\ UNCHANGED <<rawName, starts, answerOk, sessionName, tmuxInstalled, sessionUp,
                   sessionExists, createResult, injectResult, attempts,
                   capture, rule, keys, polled, unrecognized, cmdKeys,
                   creations, result, logFile>>

\* after await checkTmuxAvailable()
AfterAvailable(r) ==
    /\ pc[r] = "availAwait"
    /\ IF ~tmuxAvailable[r]
       THEN /\ result' = Set(result, r, Result(FALSE, "tmux_not_installed",
                                "Need to install tmux: brew install tmux", <<>>))
            /\ pc' = Set(pc, r, "done")
            /\ UNCHANGED <<made, sessionExists>>
       ELSE /\ made' = Set(made, r, made[r] \cup {"has-session"})
            /\ sessionExists' = Set(sessionExists, r, sessionUp)
            /\ pc' = Set(pc, r, "sessionAwait")
            /\ UNCHANGED result
    /\ UNCHANGED ctlVars
    /\ UNCHANGED <<rawName, starts, answerOk, sessionName, tmuxInstalled, sessionUp, entry,
                   token, command, tmuxAvailable, createResult, injectResult,
                   attempts, capture, rule, keys, polled, unrecognized,
                   cmdKeys, creations, logFile>>

\* createClaudeSession with the fallback start command run whatever the
\* primary did
CreateSession_BothRun(r) ==
    /\ pc[r] = "sessionAwait"
    /\ ~sessionExists[r]
    /\ LET primaryOk == starts["clauderun"] /\ ~sessionUp
           fallbackOk == starts["claude"] /\ ~sessionUp
       IN  /\ made' = Set(made, r, made[r] \cup {"new-session"})
           /\ creations' = Set(creations, r, creations[r] + 2)
           /\ IF primaryOk \/ fallbackOk
              THEN /\ sessionUp' = TRUE
                   /\ createResult' = Set(createResult, r, Result(TRUE, "", "", <<>>))
                   /\ pc' = Set(pc, r, "createSettle")
              ELSE /\ sessionUp' = sessionUp
                   /\ createResult' = Set(createResult, r,
                          Result(FALSE, "new-session failed", "", <<>>))
                   /\ pc' = Set(pc, r, "createAwait")
    /\ UNCHANGED ctlVars
    /\ UNCHANGED <<rawName, starts, answerOk, sessionName, tmuxInstalled, entry,
                   token, command, tmuxAvailable, sessionExists, injectResult,
                   attempts, capture, rule, keys, polled, unrecognized, cmdKeys,
                   result, logFile>>

\* after await checkClaudeSession(), session missing: createClaudeSession
\* runs new-session with the primary start command and, when that throws,
\* with the fallback; new-session throws on a session that exists.  After a
\* success the promise resolves from a 3000 ms timer.
CreateSession(r) ==
    /\ pc[r] = "sessionAwait"
    /\ ~sessionExists[r]
    /\ LET primaryOk == starts["clauderun"] /\ ~sessionUp
           fallbackOk == starts["claude"] /\ ~sessionUp
       IN  /\ made' = Set(made, r, made[r] \cup {"new-session"})
           /\ creations' = Set(creations, r,
                               creations[r] + (IF primaryOk THEN 1 ELSE 2))
           /\ IF primaryOk \/ fallbackOk
              THEN /\ sessionUp' = TRUE
                   /\ createResult' = Set(createResult, r, Result(TRUE, "", "", <<>>))
                   /\ pc' = Set(pc, r, "createSettle")
              ELSE /\ sessionUp' = sessionUp
                   /\ createResult' = Set(createResult, r,
                          Result(FALSE, "new-session failed", "", <<>>))
                   /\ pc' = Set(pc, r, "createAwait")
    /\ UNCHANGED ctlVars
    /\ UNCHANGED <<rawName, starts, answerOk, sessionName, tmuxInstalled, entry,
                   token, command, tmuxAvailable, sessionExists, injectResult,
                   attempts, capture, rule, keys, polled, unrecognized, cmdKeys,
                   result, logFile>>

\* after await checkClaudeSession(), session found: injectCommand starts
InjectExisting(r, ok) ==
    /\ pc[r] = "sessionAwait"
    /\ sessionExists[r]
    /\ ClearInput(r, ok)
    /\ UNCHANGED ctlVars
    /\ UNCHANGED <<rawName, starts, answerOk, sessionName, tmuxInstalled, sessionUp, entry,
                   token, command, tmuxAvailable, sessionExists, createResult,
                   attempts, capture, rule, keys, polled, unrecognized,
                   creations, result, logFile>>

\* after await createClaudeSession(), created: the 3000 ms settle delay is
\* over and injectCommand starts
InjectCreated(r, ok) ==
    /\ pc[r] = "createSettle"
    /\ ClearInput(r, ok)
    /\ UNCHANGED ctlVars
    /\ UNCHANGED <<rawName, starts, answerOk, sessionName, tmuxInstalled, sessionUp, entry,
                   token, command, tmuxAvailable, sessionExists, createResult,
                   attempts, capture, rule, keys, polled, unrecognized,
                   creations, result, logFile>>

\* the failed creation ignored: injectCommand starts all the same
CreationFailed_Inject(r) ==
    /\ pc[r] = "createAwait"
    /\ ClearInput(r, TRUE)
    /\ UNCHANGED ctlVars
    /\ UNCHANGED <<rawName, starts, answerOk, sessionName, tmuxInstalled, sessionUp, entry,
                   token, command, tmuxAvailable, sessionExists, createResult,
                   attempts, capture, rule, keys, polled, unrecognized,
                   creations, result, logFile>>

\* after await createClaudeSession(), not created
CreationFailed(r) ==
    /\ pc[r] = "createAwait"
    /\ result' = Set(result, r, Result(FALSE, "session_creation_failed",
                                       createResult[r].error, <<>>))
    /\ pc' = Set(pc, r, "done")
    /\ UNCHANGED ctlVars
    /\ UNCHANGED <<rawName, starts, answerOk, sessionName, tmuxInstalled, sessionUp, entry,
                   token, command, tmuxAvailable, sessionExists, createResult,
                   injectResult, attempts, capture, rule, keys, polled,
                   unrecognized, cmdKeys, made, creations, logFile>>

\* injectCommand(command) called by itself, up to its first await
InjectCommand(r, cmd, ok) ==
    /\ pc[r] = "idle"
    /\ entry' = Set(entry, r, "injectCommand")
    /\ command' = Set(command, r, cmd)
    /\ ClearInput(r, ok)
    /\ UNCHANGED ctlVars
    /\ UNCHANGED <<rawName, starts, answerOk, sessionName, tmuxInstalled, sessionUp, token,
                   tmuxAvailable, sessionExists, createResult, attempts, capture,
                   rule, keys, polled, unrecognized, creations, result, logFile>>

\* injectCommand step 2, after the 200 ms wait: the command text
SendCommand(r, ok) ==
    /\ pc[r] = "clearWait"
    /\ cmdKeys' = Set(cmdKeys, r, Append(cmdKeys[r], Sent(command[r].val, ok)))
    /\ made' = Set(made, r, made[r] \cup {"send-keys"})
    /\ IF ok
       THEN /\ pc' = Set(pc, r, "textWait")
            /\ UNCHANGED injectResult
       ELSE /\ pc' = Set(pc, r, "injectAwait")
            /\ injectResult' = Set(injectResult, r,
                   Result(FALSE, "Failed to send command", "", <<>>))
    /\ UNCHANGED ctlVars
    /\ UNCHANGED <<rawName, starts, answerOk, sessionName, tmuxInstalled, sessionUp, entry,
                   token, command, tmuxAvailable, sessionExists, createResult,
                   attempts, capture, rule, keys, polled, unrecognized,
                   creations, result, logFile>>

\* injectCommand step 3, after the 200 ms wait: the execute key
SendEnter(r, ok) ==
    /\ pc[r] = "textWait"
    /\ cmdKeys' = Set(cmdKeys, r, Append(cmdKeys[r], Sent(KeyExecute, ok)))
    /\ made' = Set(made, r, made[r] \cup {"send-keys"})
    /\ IF ok
       THEN /\ pc' = Set(pc, r, "enterWait")
            /\ UNCHANGED injectResult
       ELSE /\ pc' = Set(pc, r, "injectAwait")
            /\ injectResult' = Set(injectResult, r,
                   Result(FALSE, "Failed to send enter", "", <<>>))
    /\ UNCHANGED ctlVars
    /\ UNCHANGED <<rawName, starts, answerOk, sessionName, tmuxInstalled, sessionUp, entry,
                   token, command, tmuxAvailable, sessionExists, createResult,
                   attempts, capture, rule, keys, polled, unrecognized,
                   creations, result, logFile>>

\* injectCommand after the 1000 ms wait: the state check capture
StateCheck(r) ==
    /\ pc[r] = "enterWait"
    /\ made' = Set(made, r, made[r] \cup {"capture-pane"})
    /\ pc' = Set(pc, r, "stateAwait")
    /\ UNCHANGED ctlVars
    /\ UNCHANGED <<rawName, starts, answerOk, sessionName, tmuxInstalled, sessionUp, entry,
                   token, command, tmuxAvailable, sessionExists, createResult,
                   injectResult, attempts, capture, rule, keys, polled,
                   unrecognized, cmdKeys, creations, result, logFile>>

\* handleConfirmations() up to its first await
StartConfirmations(r) ==
    /\ pc[r] = "stateAwait"
    /\ WhileTest(r, made[r])
    /\ UNCHANGED ctlVars
    /\ UNCHANGED <<rawName, starts, answerOk, sessionName, tmuxInstalled, sessionUp, entry,
                   token, command, tmuxAvailable, sessionExists, createResult,
                   injectResult, capture, rule, keys, polled, unrecognized,
                   cmdKeys, creations, result, logFile>>

\* the branches that answer a prompt with a key and then the execute key
answers(m) == m \in {"multi", "single", "yesno"}

\* the breaks without the one on a failed capture
endsLoop_CaptureIgnored(m) == m \in {"prompt", "error"}

\* the breaks with one more, on a processing indicator
endsLoop_BusyBreaks(m) == m \in {"captureFailed", "prompt", "error", "busy"}

\* the breaks without the one on a new input prompt
endsLoop_PromptGoesOn(m) == m \in {"captureFailed", "error"}

\* the branches that leave the loop: break
endsLoop(m) == m \in {"captureFailed", "prompt", "error"}

\* one iteration of the poll loop, after the 1500 ms wait: the capture and
\* the branch taken on it, up to the next await.  The capture promise is
\* already resolved when it is awaited, so the branch runs in the same
\* macrotask as the capture.  ok is what _sendKeysSync returns for the answer
\* key; no branch reads it.
Poll(r, cap, ok) ==
    /\ pc[r] = "pollWait"
    /\ capture' = Set(capture, r, cap)
    /\ polled' = Set(polled, r, polled[r] + 1)
    /\ LET m == IF cap.success THEN matchedRule(cap.output) ELSE "captureFailed"
           called == made[r] \cup {"capture-pane"}
       IN  /\ rule' = Set(rule, r, m)
           /\ answers(m) \/ ok
           /\ answerOk' = Set(answerOk, r, ok)
           /\ unrecognized' = Set(unrecognized, r,
                                  IF m = "none" THEN unrecognized[r] + 1 ELSE 0)
           /\ IF answers(m)
              THEN /\ keys' = Set(keys, r, <<answerKey(m)>>)
                   /\ pc' = Set(pc, r, "answerWait")
                   /\ made' = Set(made, r, called \cup {"send-keys"})
                   /\ UNCHANGED attempts
              ELSE IF m = "enter"
              THEN /\ keys' = Set(keys, r, <<KeyEnter>>)
                   /\ WhileTest(r, called \cup {"send-keys"})
              ELSE IF endsLoop(m)
              THEN /\ keys' = Set(keys, r, <<>>)
                   /\ AfterLoop(r, called)
              ELSE IF m = "none" /\ attempts[r] < maxAttempts
              THEN /\ keys' = Set(keys, r, <<>>)
                   /\ pc' = Set(pc, r, "backoff")
                   /\ made' = Set(made, r, called)
                   /\ UNCHANGED attempts
              ELSE /\ keys' = Set(keys, r, <<>>)
                   /\ WhileTest(r, called)
    /\ UNCHANGED ctlVars
    /\ UNCHANGED <<rawName, starts, sessionName, tmuxInstalled, sessionUp, entry,
                   token, command, tmuxAvailable, sessionExists, createResult,
                   injectResult, cmdKeys, creations, result, logFile>>

\* an answering branch that leaves the loop when its answer key was not sent
AnswerEnter_ChecksAnswer(r) ==
    /\ pc[r] = "answerWait"
    /\ IF ~answerOk[r]
       THEN /\ AfterLoop(r, made[r])
            /\ UNCHANGED keys
       ELSE /\ keys' = Set(keys, r, Append(keys[r], KeyEnter))
            /\ IF rule[r] = "multi"
               THEN /\ pc' = Set(pc, r, "settle")
                    /\ made' = Set(made, r, made[r] \cup {"send-keys"})
                    /\ UNCHANGED attempts
               ELSE WhileTest(r, made[r] \cup {"send-keys"})
    /\ UNCHANGED ctlVars
    /\ UNCHANGED <<rawName, starts, answerOk, sessionName, tmuxInstalled,
                   sessionUp, entry, token, command, tmuxAvailable,
                   sessionExists, createResult, injectResult, capture, rule,
                   polled, unrecognized, cmdKeys, creations, result, logFile>>

\* an answering branch after its 300 ms wait: the execute key, whatever the
\* answer key's send returned
AnswerEnter(r) ==
    /\ pc[r] = "answerWait"
    /\ keys' = Set(keys, r, Append(keys[r], KeyEnter))
    /\ IF rule[r] = "multi"
       THEN /\ pc' = Set(pc, r, "settle")
            /\ made' = Set(made, r, made[r] \cup {"send-keys"})
            /\ UNCHANGED attempts
       ELSE WhileTest(r, made[r] \cup {"send-keys"})
    /\ UNCHANGED ctlVars
    /\ UNCHANGED <<rawName, starts, answerOk, sessionName, tmuxInstalled, sessionUp, entry,
                   token, command, tmuxAvailable, sessionExists, createResult,
                   injectResult, capture, rule, polled, unrecognized, cmdKeys,
                   creations, result, logFile>>

\* the end of a 2000 ms wait: after the multi-option answer, or when no
\* branch matched
Resume(r) ==
    /\ pc[r] \in {"settle", "backoff"}
    /\ WhileTest(r, made[r])
    /\ UNCHANGED ctlVars
    /\ UNCHANGED <<rawName, starts, answerOk, sessionName, tmuxInstalled, sessionUp, entry,
                   token, command, tmuxAvailable, sessionExists, createResult,
                   injectResult, capture, rule, keys, polled, unrecognized,
                   cmdKeys, creations, result, logFile>>

\* logInjection(command): one appended line, unless the append throws, which
\* is caught
logInjection(cmd, wrote) ==
    IF wrote
    THEN Append(logFile, [command |-> cmd, session |-> sessionName])
    ELSE logFile

\* the end of injectCommand with the way confirmation handling ended turned
\* into the result
Finish_LoopOutcome(r, wrote) ==
    /\ pc[r] = "finalAwait"
    /\ logFile' = logInjection(command[r], wrote)
    /\ injectResult' = Set(injectResult, r,
           IF rule[r] \in {"error", "captureFailed"} \/ attempts[r] = maxAttempts
           THEN Result(FALSE, "confirmation failed", "", <<>>)
           ELSE Result(TRUE, "", "", <<>>))
    /\ pc' = Set(pc, r, "injectAwait")
    /\ UNCHANGED ctlVars
    /\ UNCHANGED <<rawName, starts, answerOk, sessionName, tmuxInstalled, sessionUp, entry,
                   token, command, tmuxAvailable, sessionExists, createResult,
                   attempts, capture, rule, keys, polled, unrecognized,
                   cmdKeys, made, creations, result>>

\* injectCommand after await handleConfirmations(): the log entry and
\* resolve({success: true})
Finish(r, wrote) ==
    /\ pc[r] = "finalAwait"
    /\ logFile' = logInjection(command[r], wrote)
    /\ injectResult' = Set(injectResult, r, Result(TRUE, "", "", <<>>))
    /\ pc' = Set(pc, r, "injectAwait")
    /\ UNCHANGED ctlVars
    /\ UNCHANGED <<rawName, starts, answerOk, sessionName, tmuxInstalled, sessionUp, entry,
                   token, command, tmuxAvailable, sessionExists, createResult,
                   attempts, capture, rule, keys, polled, unrecognized,
                   cmdKeys, made, creations, result>>

\* injectCommandFull after await injectCommand(command)
ReturnFull(r) ==
    /\ pc[r] = "injectAwait"
    /\ entry[r] = "injectCommandFull"
    /\ result' = Set(result, r,
           IF injectResult[r].success
           THEN Result(TRUE, "",
                       "Command successfully injected into Claude tmux session",
                       sessionName)
           ELSE Result(FALSE, "injection_failed", injectResult[r].error, <<>>))
    /\ pc' = Set(pc, r, "done")
    /\ UNCHANGED ctlVars
    /\ UNCHANGED <<rawName, starts, answerOk, sessionName, tmuxInstalled, sessionUp, entry,
                   token, command, tmuxAvailable, sessionExists, createResult,
                   injectResult, attempts, capture, rule, keys, polled,
                   unrecognized, cmdKeys, made, creations, logFile>>

\* the continuations of injectCommand after its first await, the polls
\* drawing from the captures caps
Inject(r, caps) ==
    \/ \E ok \in BOOLEAN : SendCommand(r, ok)
    \/ \E ok \in BOOLEAN : SendEnter(r, ok)
    \/ StateCheck(r)
    \/ StartConfirmations(r)
    \/ \E cap \in caps, ok \in BOOLEAN : Poll(r, cap, ok)
    \/ AnswerEnter(r)
    \/ Resume(r)
    \/ \E wrote \in BOOLEAN : Finish(r, wrote)

\* request r as a call of injectCommand(command)
Direct(r, cmds, caps) ==
    \/ \E cmd \in cmds, ok \in BOOLEAN : InjectCommand(r, cmd, ok)
    \/ Inject(r, caps)

\* request r as a call of injectCommandFull(token, command)
Full(r, toks, cmds, caps) ==
    \/ \E tok \in toks, cmd \in cmds : InjectCommandFull(r, tok, cmd)
    \/ AfterAvailable(r)
    \/ CreateSession(r)
    \/ \E ok \in BOOLEAN : InjectExisting(r, ok)
    \/ \E ok \in BOOLEAN : InjectCreated(r, ok)
    \/ CreationFailed(r)
    \/ Inject(r, caps)
    \/ ReturnFull(r)

(***************************************************************************)
(* RateLimiter                                                             *)
(***************************************************************************)
\* the window and the budget the limiter is constructed with, in clock ticks
\* and calls (ControllerInjector passes RATE_LIMIT_WINDOW_MS and
\* RATE_LIMIT_MAX_COMMANDS)
WindowMs == 2

MaxCommands == 2

\* the last value of Date.now()
MaxTime == 3

\* the filter letting go of the timestamps of the window's first tick too
RECURSIVE filterRecent_Eager(_, _)
filterRecent_Eager(timestamps, windowStart) ==
    IF timestamps = <<>> THEN <<>>
    ELSE IF Head(timestamps) > windowStart + 1
    THEN <<Head(timestamps)>> \o filterRecent_Eager(Tail(timestamps), windowStart)
    ELSE filterRecent_Eager(Tail(timestamps), windowStart)

\* state.timestamps.filter(ts => ts > windowStart)
RECURSIVE filterRecent(_, _)
filterRecent(timestamps, windowStart) ==
    IF timestamps = <<>> THEN <<>>
    ELSE IF Head(timestamps) > windowStart
    THEN <<Head(timestamps)>> \o filterRecent(Tail(timestamps), windowStart)
    ELSE filterRecent(Tail(timestamps), windowStart)

\* the map holding the one key only
MapSet_Alone(map, key, ts) == [k \in {key} |-> ts]

\* the map with key bound to ts, whether it was bound before or not
MapSet(map, key, ts) ==
    [k \in DOMAIN map \cup {key} |-> IF k = key THEN ts ELSE map[k]]

\* checkAndRecord refusing only above the budget
checkAndRecord_OverBudget(map, sessionKey, t) ==
    LET windowStart == t - WindowMs
        state == IF sessionKey \in DOMAIN map THEN map[sessionKey] ELSE <<>>
        kept == filterRecent(state, windowStart)
    IN  IF Len(kept) > MaxCommands
        THEN [allowed |-> FALSE, map |-> MapSet(map, sessionKey, kept)]
        ELSE [allowed |-> TRUE, map |-> MapSet(map, sessionKey, Append(kept, t))]

\* checkAndRecord(sessionKey) on the map at time t: what it returns and the
\* map it leaves
checkAndRecord(map, sessionKey, t) ==
    LET windowStart == t - WindowMs
        state == IF sessionKey \in DOMAIN map THEN map[sessionKey] ELSE <<>>
        kept == filterRecent(state, windowStart)
    IN  IF Len(kept) >= MaxCommands
        THEN [allowed |-> FALSE, map |-> MapSet(map, sessionKey, kept)]
        ELSE [allowed |-> TRUE, map |-> MapSet(map, sessionKey, Append(kept, t))]

(***************************************************************************)
(* ControllerInjector                                                      *)
(***************************************************************************)
\* config.defaultSession || process.env.TMUX_SESSION || 'claude-code'
DefaultSession == <<"c","l","a","u","d","e","-","c","o","d","e">>

\* injectCommand arguments: the commands above that trimming changes or
\* empties, and a non-string; no session name, one that sanitizing changes,
\* one it empties
CtlCommands == (Commands \ {GoodCommand}) \cup {Null}

CtlNames == {Null,
             Str(<<"a",";"," ","b">>),
             Str(<<";","$">>)}

\* new ControllerInjector({mode}): the state after construction
InitCtl(modes) ==
    /\ now = 0
    /\ sessionMap = <<>>
    /\ mode \in modes
    /\ ctlCommand = Null
    /\ ctlSessionArg = Null
    /\ ctlStatus = "none"
    /\ ctlError = ""
    /\ ctlSession = <<>>
    /\ ctlLimiter = "notAsked"
    /\ ctlCalls = <<>>
    /\ rlOp = "none"
    /\ rlKey = <<>>
    /\ rlTime = 0
    /\ rlResult = FALSE
    /\ rlBefore = <<>>
    /\ rlLog = <<>>

\* one external process call: the program, its session argument, its payload
Call(prog, target, payload) == [prog |-> prog, target |-> target, payload |-> payload]

\* _injectTmux(command, sessionName): the calls it makes and how it ends, when
\* has-session answers exists and the two send-keys calls end as textOk, enterOk
_injectTmux(cmd, sess, exists, textOk, enterOk) ==
    LET has == Call("has-session", sess, <<>>)
        text == Call("send-keys", sess, cmd)
        enter == Call("send-keys", sess, KeyEnter)
    IN  IF ~exists
        THEN [calls |-> <<has>>, error |-> "tmux_session_not_found"]
        ELSE IF ~textOk
        THEN [calls |-> <<has, text>>, error |-> "send_keys_failed"]
        ELSE IF ~enterOk
        THEN [calls |-> <<has, text, enter>>, error |-> "send_keys_failed"]
        ELSE [calls |-> <<has, text, enter>>, error |-> ""]

\* _injectPty(command, sessionName): exists says that the session map names
\* a ptyPath for the session, textOk that osascript ran, enterOk that it
\* answered "sent"
_injectPty(cmd, sess, exists, textOk, enterOk) ==
    LET script == Call("osascript", <<>>, cmd) IN
    IF ~exists
    THEN [calls |-> <<>>, error |-> "session_not_found"]
    ELSE IF ~textOk
    THEN [calls |-> <<script>>, error |-> "osascript_failed"]
    ELSE IF ~enterOk
    THEN [calls |-> <<script>>, error |-> "iterm_session_not_found"]
    ELSE [calls |-> <<script>>, error |-> ""]

\* the limiter's answer ignored
rateLimited_Never(limit) == FALSE

\* if (!this.rateLimiter.checkAndRecord(session)) throw ...
rateLimited(limit) == ~limit.allowed

\* what checkAndRecord returned, as ctlLimiter records it
limiterSaid(limit) == IF limit.allowed THEN "admitted" ELSE "denied"

\* injectCommand giving the slot back when the injection fails
CtlInjectCommand_SlotReleased(cmd, name, exists, textOk, enterOk) ==
    LET validation == validateCommand(cmd)
        sane == _sanitizeSessionName(IF Falsy(name) THEN Str(DefaultSession)
                                     ELSE name)
        limit == checkAndRecord(sessionMap, sane.name, now)
        sent == IF mode = "tmux"
                THEN _injectTmux(validation.command, sane.name, exists, textOk, enterOk)
                ELSE _injectPty(validation.command, sane.name, exists, textOk, enterOk)
    IN  /\ ~exists => textOk
        /\ ~textOk => enterOk
        /\ (~validation.valid \/ sane.threw \/ rateLimited(limit)) => exists /\ textOk
        /\ ctlCommand' = cmd
        /\ ctlSessionArg' = name
        /\ IF ~validation.valid
           THEN /\ ctlStatus' = "threw"
                /\ ctlError' = validation.error
                /\ ctlSession' = <<>>
                /\ ctlLimiter' = "notAsked"
                /\ ctlCalls' = <<>>
                /\ UNCHANGED sessionMap
           ELSE IF sane.threw
           THEN /\ ctlStatus' = "threw"
                /\ ctlError' = sane.error
                /\ ctlSession' = <<>>
                /\ ctlLimiter' = "notAsked"
                /\ ctlCalls' = <<>>
                /\ UNCHANGED sessionMap
           ELSE IF rateLimited(limit)
           THEN /\ ctlStatus' = "threw"
                /\ ctlError' = "Rate limit exceeded"
                /\ ctlSession' = sane.name
                /\ ctlLimiter' = limiterSaid(limit)
                /\ ctlCalls' = <<>>
                /\ sessionMap' = limit.map
           ELSE /\ ctlStatus' = IF sent.error = "" THEN "returned" ELSE "threw"
                /\ ctlError' = sent.error
                /\ ctlSession' = sane.name
                /\ ctlLimiter' = limiterSaid(limit)
                /\ ctlCalls' = sent.calls
                /\ sessionMap' = IF sent.error = "" THEN limit.map ELSE sessionMap
        /\ UNCHANGED <<now, mode>>
        /\ UNCHANGED <<rlOp, rlKey, rlTime, rlResult, rlBefore, rlLog>>
        /\ UNCHANGED smartVars
        /\ UNCHANGED utilVars
        /\ UNCHANGED tmuxVars
        /\ UNCHANGED tgVars
        /\ UNCHANGED sweepVars

\* ControllerInjector.injectCommand(command, sessionName): the whole call; it
\* is synchronous up to its return.  exists, textOk and enterOk are the
\* answers of the external calls (TRUE for a call that is not made).
CtlInjectCommand(cmd, name, exists, textOk, enterOk) ==
    LET validation == validateCommand(cmd)
        sane == _sanitizeSessionName(IF Falsy(name) THEN Str(DefaultSession)
                                     ELSE name)
        limit == checkAndRecord(sessionMap, sane.name, now)
        sent == IF mode = "tmux"
                THEN _injectTmux(validation.command, sane.name, exists, textOk, enterOk)
                ELSE _injectPty(validation.command, sane.name, exists, textOk, enterOk)
    IN  /\ ~exists => textOk
        /\ ~textOk => enterOk
        /\ (~validation.valid \/ sane.threw \/ rateLimited(limit)) => exists /\ textOk
        /\ ctlCommand' = cmd
        /\ ctlSessionArg' = name
        /\ IF ~validation.valid
           THEN /\ ctlStatus' = "threw"
                /\ ctlError' = validation.error
                /\ ctlSession' = <<>>
                /\ ctlLimiter' = "notAsked"
                /\ ctlCalls' = <<>>
                /\ UNCHANGED sessionMap
           ELSE IF sane.threw
           THEN /\ ctlStatus' = "threw"
                /\ ctlError' = sane.error
                /\ ctlSession' = <<>>
                /\ ctlLimiter' = "notAsked"
                /\ ctlCalls' = <<>>
                /\ UNCHANGED sessionMap
           ELSE IF rateLimited(limit)
           THEN /\ ctlStatus' = "threw"
                /\ ctlError' = "Rate limit exceeded"
                /\ ctlSession' = sane.name
                /\ ctlLimiter' = limiterSaid(limit)
                /\ ctlCalls' = <<>>
                /\ sessionMap' = limit.map
           ELSE /\ ctlStatus' = IF sent.error = "" THEN "returned" ELSE "threw"
                /\ ctlError' = sent.error
                /\ ctlSession' = sane.name
                /\ ctlLimiter' = limiterSaid(limit)
                /\ ctlCalls' = sent.calls
                /\ sessionMap' = limit.map
        /\ UNCHANGED <<now, mode>>
        /\ UNCHANGED <<rlOp, rlKey, rlTime, rlResult, rlBefore, rlLog>>
        /\ UNCHANGED smartVars
        /\ UNCHANGED utilVars
        /\ UNCHANGED tmuxVars
        /\ UNCHANGED tgVars
        /\ UNCHANGED sweepVars

\* time passes
Tick ==
    /\ now < MaxTime
    /\ now' = now + 1
    /\ UNCHANGED <<sessionMap, mode, ctlCommand, ctlSessionArg, ctlStatus,
                   ctlError, ctlSession, ctlLimiter, ctlCalls>>
    /\ UNCHANGED <<rlOp, rlKey, rlTime, rlResult, rlBefore, rlLog>>
    /\ UNCHANGED smartVars
    /\ UNCHANGED utilVars
    /\ UNCHANGED tmuxVars
    /\ UNCHANGED tgVars
    /\ UNCHANGED sweepVars

(***************************************************************************)
(* RateLimiter, called directly                                            *)
(***************************************************************************)
\* the session keys of the direct calls
LimiterKeys == {<<"s">>, <<"t">>}

\* the largest number of checkAndRecord calls on record at a time
MaxCalls == 4

\* clear deleting nothing
clear_Nothing(map, sessionKey) == map

\* clear(sessionKey): this.sessionMap.delete(sessionKey)
clear(map, sessionKey) == [k \in DOMAIN map \ {sessionKey} |-> map[k]]

\* clearAll(): this.sessionMap.clear()
clearAll(map) == [k \in {} |-> <<>>]

\* one call on record
Logged(key, t, allowed) == [key |-> key, time |-> t, allowed |-> allowed]

\* rateLimiter.checkAndRecord(key), the whole call: it is synchronous
CheckAndRecord(key) ==
    /\ Len(rlLog) < MaxCalls
    /\ LET limit == checkAndRecord(sessionMap, key, now) IN
        /\ sessionMap' = limit.map
        /\ rlResult' = limit.allowed
        /\ rlLog' = Append(rlLog, Logged(key, now, limit.allowed))
    /\ rlOp' = "check"
    /\ rlKey' = key
    /\ rlTime' = now
    /\ rlBefore' = sessionMap
    /\ UNCHANGED <<now, mode, ctlCommand, ctlSessionArg, ctlStatus, ctlError,
                   ctlSession, ctlLimiter, ctlCalls>>
    /\ UNCHANGED smartVars
    /\ UNCHANGED utilVars
    /\ UNCHANGED tmuxVars
    /\ UNCHANGED tgVars
    /\ UNCHANGED sweepVars

\* rateLimiter.clear(key)
Clear(key) ==
    /\ sessionMap' = clear(sessionMap, key)
    /\ rlLog' = SelectSeq(rlLog, LAMBDA e : e.key # key)
    /\ rlOp' = "clear"
    /\ rlKey' = key
    /\ rlTime' = now
    /\ rlBefore' = sessionMap
    /\ UNCHANGED <<now, mode, ctlCommand, ctlSessionArg, ctlStatus, ctlError,
                   ctlSession, ctlLimiter, ctlCalls, rlResult>>
    /\ UNCHANGED smartVars
    /\ UNCHANGED utilVars
    /\ UNCHANGED tmuxVars
    /\ UNCHANGED tgVars
    /\ UNCHANGED sweepVars

\* rateLimiter.clearAll()
ClearAll ==
    /\ sessionMap' = clearAll(sessionMap)
    /\ rlLog' = <<>>
    /\ rlOp' = "clearAll"
    /\ rlTime' = now
    /\ rlBefore' = sessionMap
    /\ UNCHANGED <<now, mode, ctlCommand, ctlSessionArg, ctlStatus, ctlError,
                   ctlSession, ctlLimiter, ctlCalls, rlKey, rlResult>>
    /\ UNCHANGED smartVars
    /\ UNCHANGED utilVars
    /\ UNCHANGED tmuxVars
    /\ UNCHANGED tgVars
    /\ UNCHANGED sweepVars

(***************************************************************************)
(* SmartInjector                                                           *)
(***************************************************************************)
\* how a method's promise settles: resolved {success: true}, resolved
\* {success: false, error}, or rejected with an error; and the external
\* calls the method made
Ended(end, error, calls) == [end |-> end, error |-> error, calls |-> calls]

\* what the osascript run of method 1 comes to: the script's answers, a run
\* refused for want of permission, or a run that failed otherwise
ScriptEnds == {"success", "no_target", "permission_denied", "osascript failed"}

\* method 1: copyToClipboard is awaited outside any try, so its rejection
\* rejects the method; then the paste script
tryAppleScriptInjection(clipOk, script) ==
    IF ~clipOk THEN Ended("threw", "pbcopy failed", <<"pbcopy">>)
    ELSE IF script = "success"
    THEN Ended("success", "", <<"pbcopy", "osascript">>)
    ELSE Ended("failed", script, <<"pbcopy", "osascript">>)

\* method 2: the command file, its path to the clipboard, a notification
\* whose result is dropped, and the temp directory opened, all inside try
tryFileDropInjection(writeOk, clipOk, openOk) ==
    IF ~writeOk THEN Ended("failed", "writeFile failed", <<"writeFile">>)
    ELSE IF ~clipOk
    THEN Ended("failed", "pbcopy failed", <<"writeFile", "pbcopy">>)
    ELSE IF ~openOk
    THEN Ended("failed", "open failed",
               <<"writeFile", "pbcopy", "osascript", "open">>)
    ELSE Ended("success", "", <<"writeFile", "pbcopy", "osascript", "open">>)

\* method 3: the clipboard and three notifications whose results are dropped,
\* inside try
tryClipboardWithPersistentNotification(clipOk) ==
    IF ~clipOk THEN Ended("failed", "pbcopy failed", <<"pbcopy">>)
    ELSE Ended("success", "",
               <<"pbcopy", "osascript", "osascript", "osascript">>)

\* method 4: the clipboard, the command file, the desktop shortcut and a
\* notification whose result is dropped, inside try
tryUrgentClipboard(clipOk, writeOk, deskOk) ==
    IF ~clipOk THEN Ended("failed", "pbcopy failed", <<"pbcopy">>)
    ELSE IF ~writeOk
    THEN Ended("failed", "writeFile failed", <<"pbcopy", "writeFile">>)
    ELSE IF ~deskOk
    THEN Ended("failed", "writeFile failed",
               <<"pbcopy", "writeFile", "writeFile">>)
    ELSE Ended("success", "",
               <<"pbcopy", "writeFile", "writeFile", "osascript">>)

\* the array with the file drop and the reminder exchanged
methods_Swapped ==
    <<"tryAppleScriptInjection",
      "tryClipboardWithPersistentNotification",
      "tryFileDropInjection",
      "tryUrgentClipboard">>

\* const methods = [...]
methods ==
    <<"tryAppleScriptInjection",
      "tryFileDropInjection",
      "tryClipboardWithPersistentNotification",
      "tryUrgentClipboard">>

\* await methods[i](token, validatedCommand), in an environment where pbcopy,
\* osascript, the file writes and open end as given
callMethod(name, clipOk, script, writeOk, openOk, deskOk) ==
    CASE name = "tryAppleScriptInjection" ->
             tryAppleScriptInjection(clipOk, script)
      [] name = "tryFileDropInjection" ->
             tryFileDropInjection(writeOk, clipOk, openOk)
      [] name = "tryClipboardWithPersistentNotification" ->
             tryClipboardWithPersistentNotification(clipOk)
      [] name = "tryUrgentClipboard" ->
             tryUrgentClipboard(clipOk, writeOk, deskOk)

\* the loop body without its catch
afterMethod_Uncaught(end) ==
    CASE end = "success" -> "return"
      [] end = "failed" -> "next"
      [] end = "threw" -> "reject"

\* the loop body: return true on success, log and go on otherwise; the catch
\* block logs the exception and the loop goes on
afterMethod(end) ==
    CASE end = "success" -> "return"
      [] end = "failed" -> "next"
      [] end = "threw" -> "next"

\* this.log.<level>(...): the level, the method it is about (0: none), and
\* which message
LogLine(level, i, what) == [level |-> level, method |-> i, what |-> what]

\* the line logged when a method has ended
methodLine(i, end) ==
    CASE end = "success" -> LogLine("info", i, "successful")
      [] end = "failed" -> LogLine("warn", i, "failed")
      [] end = "threw" -> LogLine("error", i, "exception")

\* new SmartInjector(logger): no call made yet
InitSmart ==
    /\ smPc = "idle"
    /\ smToken = Null
    /\ smCommand = Null
    /\ smIndex = 0
    /\ smTried = <<>>
    /\ smLog = <<>>
    /\ smResult = "pending"

\* SmartInjector.injectCommand(token, command) up to the loop
SmartInjectCommand(tok, cmd) ==
    /\ smPc = "idle"
    /\ smToken' = tok
    /\ smCommand' = cmd
    /\ IF validateToken(tok) = Null
       THEN /\ smLog' = <<LogLine("error", 0, "Invalid token format")>>
            /\ smResult' = "false"
            /\ smPc' = "done"
            /\ UNCHANGED smIndex
       ELSE IF ~validateCommand(cmd).valid
       THEN /\ smLog' = <<LogLine("error", 0, "Invalid command")>>
            /\ smResult' = "false"
            /\ smPc' = "done"
            /\ UNCHANGED smIndex
       ELSE /\ smLog' = <<LogLine("info", 0, "Smart command injection")>>
            /\ smIndex' = 1
            /\ smPc' = "trying"
            /\ UNCHANGED smResult
    /\ UNCHANGED smTried
    /\ UNCHANGED <<now, sessionMap, mode, ctlCommand, ctlSessionArg, ctlStatus,
                   ctlError, ctlSession, ctlLimiter, ctlCalls>>
    /\ UNCHANGED <<rlOp, rlKey, rlTime, rlResult, rlBefore, rlLog>>
    /\ UNCHANGED utilVars
    /\ UNCHANGED tmuxVars
    /\ UNCHANGED tgVars
    /\ UNCHANGED sweepVars

\* one turn of the loop: methods[i] called and awaited, and what the loop
\* does with how it ended
TryMethod(clipOk, script, writeOk, openOk, deskOk) ==
    /\ smPc = "trying"
    /\ LET ended == callMethod(methods[smIndex], clipOk, script, writeOk,
                               openOk, deskOk)
           then == afterMethod(ended.end)
           tried == [method |-> methods[smIndex], end |-> ended.end,
                     error |-> ended.error, calls |-> ended.calls]
       IN  /\ smTried' = Append(smTried, tried)
           /\ IF then = "return"
              THEN /\ smLog' = Append(smLog, methodLine(smIndex, ended.end))
                   /\ smResult' = "true"
                   /\ smPc' = "done"
                   /\ UNCHANGED smIndex
              ELSE IF then = "reject"
              THEN /\ smResult' = "rejected"
                   /\ smPc' = "done"
                   /\ UNCHANGED <<smLog, smIndex>>
              ELSE IF smIndex < Len(methods)
              THEN /\ smLog' = Append(smLog, methodLine(smIndex, ended.end))
                   /\ smIndex' = smIndex + 1
                   /\ UNCHANGED <<smPc, smResult>>
              ELSE /\ smLog' = smLog \o <<methodLine(smIndex, ended.end),
                                         LogLine("error", 0,
                                                 "All injection methods failed")>>
                   /\ smResult' = "false"
                   /\ smPc' = "done"
                   /\ UNCHANGED smIndex
    /\ UNCHANGED <<smToken, smCommand>>
    /\ UNCHANGED <<now, sessionMap, mode, ctlCommand, ctlSessionArg, ctlStatus,
                   ctlError, ctlSession, ctlLimiter, ctlCalls>>
    /\ UNCHANGED <<rlOp, rlKey, rlTime, rlResult, rlBefore, rlLog>>
    /\ UNCHANGED utilVars
    /\ UNCHANGED tmuxVars
    /\ UNCHANGED tgVars
    /\ UNCHANGED sweepVars

(***************************************************************************)
(* webhook-utils.js and shared.js, called directly                         *)
(***************************************************************************)
\* a value that is neither a string nor falsy, such as 12345678 or {}
Num == [type |-> "number"]

\* str.replace(/c/g, with) for a one-character pattern
RECURSIVE replaceAll(_, _, _)
replaceAll(str, c, with) ==
    IF str = <<>> THEN <<>>
    ELSE (IF Head(str) = c THEN with ELSE <<Head(str)>>)
             \o replaceAll(Tail(str), c, with)

\* the five replacements with the backslash replaced last
escapeChain_BackslashLast(str) ==
    replaceAll(
        replaceAll(
            replaceAll(
                replaceAll(
                    replaceAll(str, "\"", <<"\\", "\"">>),
                    "\n", <<"\\", "n">>),
                "\r", <<"\\", "r">>),
            "\t", <<"\\", "t">>),
        "\\", <<"\\", "\\">>)

\* str.replace(/\\/g, '\\\\').replace(/"/g, '\\"').replace(/\n/g, '\\n')
\*    .replace(/\r/g, '\\r').replace(/\t/g, '\\t')
escapeChain(str) ==
    replaceAll(
        replaceAll(
            replaceAll(
                replaceAll(
                    replaceAll(str, "\\", <<"\\", "\\">>),
                    "\"", <<"\\", "\"">>),
                "\n", <<"\\", "n">>),
            "\r", <<"\\", "r">>),
        "\t", <<"\\", "t">>)

\* webhook-utils.js escapeForAppleScript: '' for a non-string
escapeForAppleScript(str) ==
    IF ~IsString(str) THEN Str(<<>>)
    ELSE Str(escapeChain(str.val))

\* shared.js escapeForAppleScript: '' for a falsy value; a value that is
\* neither falsy nor a string has no replace method, and the call ends in a
\* TypeError
sharedEscapeForAppleScript(str) ==
    IF str = Null \/ str = Str(<<>>) THEN Str(<<>>)
    ELSE IF ~IsString(str) THEN [type |-> "TypeError"]
    ELSE Str(escapeChain(str.val))

\* the longest text given to escapeForAppleScript
MaxEscLen == 2

RECURSIVE TextsUpTo(_, _)
TextsUpTo(chars, n) ==
    IF n = 0 THEN {<<>>}
    ELSE LET shorter == TextsUpTo(chars, n - 1) IN
         shorter \cup {Append(t, c) : t \in shorter, c \in chars}

\* the texts of the five characters that are escaped and two that are not
EscapeArgs ==
    {Str(t) : t \in TextsUpTo({"\\", "\"", "\n", "\r", "\t", "n", "a"},
                              MaxEscLen)}

\* tokens of 7, 8 and 9 characters, each closed by a character of the token
\* alphabet, a shell metacharacter, whitespace or a character outside ASCII;
\* and eight blanks
TokenArgs ==
    LET tails == {"4", "x", "Z", "-", "_", ";", "$", "|", "&", BACKQUOTE,
                  " ", "\n", "\r", LONG_S, DOTLESS_I, SHARP_S}
    IN  {Str(<<"A","b","1","2","3","4">> \o <<c>>) : c \in tails}
          \cup {Str(<<"A","b","C","1","2","3","4">> \o <<c>>) : c \in tails}
          \cup {Str(<<"a","B","c","D","1","2","3","4">> \o <<c>>) : c \in tails}
          \cup {Str(<<" "," "," "," "," "," "," "," ">>)}

\* a text of n characters
Long(n) == [i \in 1..n |-> "a"]

\* commands around the maximum length, bare and inside whitespace
LongArgs ==
    {Str(Long(MAX_COMMAND_LENGTH)),
     Str(Long(MAX_COMMAND_LENGTH + 1)),
     Str(<<" ">> \o Long(MAX_COMMAND_LENGTH) \o <<"\n">>),
     Str(<<"\t">> \o Long(MAX_COMMAND_LENGTH + 1) \o <<" ">>)}

\* the arguments of the direct calls
UtilArgs ==
    {Null, Num} \cup Commands \cup {Str(<<"\t", "\n">>)}
        \cup TokenArgs \cup EscapeArgs \cup LongArgs

\* no call made yet, and the argument that the calls will be given
InitUtils(args) ==
    /\ utArg \in args
    /\ utFn = "none"
    /\ utOut = Null

\* a direct call of fn that returns out
UtilCall(fn, out) ==
    /\ utFn' = fn
    /\ utOut' = out
    /\ UNCHANGED utArg
    /\ UNCHANGED <<now, sessionMap, mode, ctlCommand, ctlSessionArg, ctlStatus,
                   ctlError, ctlSession, ctlLimiter, ctlCalls>>
    /\ UNCHANGED <<rlOp, rlKey, rlTime, rlResult, rlBefore, rlLog>>
    /\ UNCHANGED smartVars
    /\ UNCHANGED tmuxVars
    /\ UNCHANGED tgVars
    /\ UNCHANGED sweepVars

\* validateToken(utArg)
ValidateToken ==
    /\ utArg \notin LongArgs
    /\ UtilCall("validateToken", validateToken(utArg))

\* validateCommand(utArg)
ValidateCommand ==
    /\ utArg \in UtilArgs
    /\ UtilCall("validateCommand", validateCommand(utArg))

\* webhook-utils.js escapeForAppleScript(utArg)
EscapeForAppleScript ==
    /\ utArg \notin LongArgs
    /\ UtilCall("escapeForAppleScript", escapeForAppleScript(utArg))

\* shared.js escapeForAppleScript(utArg)
SharedEscapeForAppleScript ==
    /\ utArg \notin LongArgs
    /\ UtilCall("sharedEscapeForAppleScript", sharedEscapeForAppleScript(utArg))

(***************************************************************************)
(* External processes that never exit                                      *)
(***************************************************************************)
\* the ways a child process can end
Exits == {"zero", "nonzero", "never"}

\* the timeout of an options object without a timeout property: undefined,
\* which like 0 sets no limit
NoTimeout == 0

\* the timeout option of the execFileSync calls of TmuxInjector: there is none
TmuxTimeout == NoTimeout

\* the timeout option of the execFileSync calls of ControllerInjector
CtlTimeout == 5000

\* execFileSync(file, args, {timeout}): it returns when the child exits with
\* status 0, throws on any other status and when the timeout kills the child,
\* and without a timeout it waits for the child for ever
execFileSync(exit, timeout) ==
    CASE exit = "zero" -> "returned"
      [] exit = "nonzero" -> "threw"
      [] exit = "never" -> IF timeout > 0 THEN "threw" ELSE "blocked"

\* the external program that request r runs first when it resumes
nextCall(r) ==
    CASE pc[r] \in {"idle", "clearWait", "textWait", "answerWait"} -> "send-keys"
      [] pc[r] \in {"enterWait", "pollWait"} -> "capture-pane"
      [] OTHER -> "none"

\* request r resumes and its tmux child never exits: the synchronous call
\* does not return, and it holds the only thread
NeverExits(r, cmd) ==
    /\ nextCall(r) # "none"
    /\ execFileSync("never", TmuxTimeout) = "blocked"
    /\ pc' = Set(pc, r, "blocked")
    /\ made' = Set(made, r, made[r] \cup {nextCall(r)})
    /\ IF pc[r] = "idle"
       THEN /\ entry' = Set(entry, r, "injectCommand")
            /\ command' = Set(command, r, cmd)
       ELSE UNCHANGED <<entry, command>>
    /\ UNCHANGED ctlVars
    /\ UNCHANGED <<rawName, starts, answerOk, sessionName, tmuxInstalled, sessionUp, token,
                   tmuxAvailable, sessionExists, createResult, injectResult,
                   attempts, capture, rule, keys, polled, unrecognized,
                   cmdKeys, creations, result, logFile>>

(***************************************************************************)
(* The Telegram handlers.  An update is handled in one step: the polling   *)
(* bot awaits each handler before it takes the next update, and the steps  *)
(* of one webhook request share no state with another but the stores.      *)
(* In this part one tick of the clock is one second.                       *)
(***************************************************************************)
\* the chat and user ids: the configured one and another one
ConfiguredChat == "owner"

\* TelegramWebhookHandler._isAuthorized(userId, chatId)
_isAuthorized(userId, chatId, whitelist) ==
    \/ chatId \in whitelist
    \/ userId \in whitelist
    \/ whitelist = {} /\ chatId = ConfiguredChat

\* isSessionExpired(session) when the clock says nowSeconds
isSessionExpired(session, nowSeconds) == session.expiresAt < nowSeconds

\* parseCallbackData(data); data is Null or the parts of the string between
\* its colons, at most three of them
parseCallbackData(data) ==
    IF ~IsString(data)
    THEN [prefix |-> Null, token |-> Null, command |-> Null]
    ELSE LET parts == data.val IN
         [prefix |-> IF parts[1] = <<>> THEN Null ELSE Str(parts[1]),
          token |-> IF Len(parts) > 1 /\ parts[2] # <<>>
                    THEN validateToken(Str(parts[2])) ELSE Null,
          command |-> IF Len(parts) > 2 THEN Str(parts[3]) ELSE Null]

\* telegram-bot.js processCommand(chatId, token, command), with injectCommand:
\* injected says that the tmux or AppleScript calls went through
processCommand(tok, cmd, sessions, injected) ==
    LET validToken == validateToken(tok)
        commandValidation == validateCommand(cmd)
        checks == <<"processCommand", "validateToken">>
    IN  IF Falsy(validToken)
        THEN [steps |-> checks \o <<"reply:invalid_token">>,
              sessions |-> sessions]
        ELSE IF ~commandValidation.valid
        THEN [steps |-> checks \o <<"validateCommand", "reply:invalid_command">>,
              sessions |-> sessions]
        ELSE IF validToken.val \notin DOMAIN sessions
        THEN [steps |-> checks \o <<"validateCommand", "findSession",
                                    "reply:failed">>,
              sessions |-> sessions]
        ELSE [steps |-> checks \o <<"validateCommand", "findSession", "inject">>
                               \o (IF injected THEN <<>> ELSE <<"reply:failed">>),
              sessions |-> sessions]

\* TelegramWebhookHandler._processCommand(chatId, token, command): removed
\* says that removeSession unlinked the session file
_processCommand(tok, cmd, sessions, nowSeconds, removed, injected) ==
    LET validToken == validateToken(tok)
        commandValidation == validateCommand(cmd)
        checks == <<"processCommand", "validateToken">>
    IN  IF Falsy(validToken)
        THEN [steps |-> checks \o <<"reply:invalid_token">>,
              sessions |-> sessions]
        ELSE IF ~commandValidation.valid
        THEN [steps |-> checks \o <<"validateCommand", "reply:invalid_command">>,
              sessions |-> sessions]
        ELSE IF validToken.val \notin DOMAIN sessions
        THEN [steps |-> checks \o <<"validateCommand", "findSession",
                                    "reply:invalid_or_expired">>,
              sessions |-> sessions]
        ELSE IF isSessionExpired(sessions[validToken.val], nowSeconds)
        THEN [steps |-> checks \o <<"validateCommand", "findSession",
                                    "isSessionExpired", "reply:expired",
                                    "removeSession">>,
              sessions |-> IF removed
                           THEN [t \in DOMAIN sessions \ {validToken.val} |->
                                    sessions[t]]
                           ELSE sessions]
        ELSE [steps |-> checks \o <<"validateCommand", "findSession",
                                    "isSessionExpired", "inject">>
                               \o (IF injected THEN <<>> ELSE <<"reply:failed">>),
              sessions |-> sessions]

\* telegram-bot.js handleMessage(message)
handleMessage(msg, active, injected) ==
    IF msg.form = "empty"
    THEN [steps |-> <<>>,
              sessions |-> tgSessions]
    ELSE IF msg.chat # ConfiguredChat
    THEN [steps |-> <<"unauthorized">>,
              sessions |-> tgSessions]
    ELSE IF msg.form = "start"
    THEN [steps |-> <<"authorized", "reply:help">>,
              sessions |-> tgSessions]
    ELSE LET parsed == parseCallbackData(msg.button)
             to == IF msg.form \in {"cmd", "direct"}
                   THEN [token |-> Str(toUpperCase(msg.token.val)),
                         command |-> msg.command]
                   ELSE IF /\ parsed.prefix = Str(<<"q","u","i","c","k">>)
                           /\ ~Falsy(parsed.token)
                   THEN [token |-> parsed.token, command |-> msg.command]
                   ELSE [token |-> active, command |-> msg.command]
             done == processCommand(to.token, to.command, tgSessions, injected)
         IN  IF Falsy(to.token)
             THEN [steps |-> <<"authorized", "reply:no_active_session">>,
              sessions |-> tgSessions]
             ELSE [steps |-> <<"authorized">> \o done.steps,
              sessions |-> done.sessions]

\* TelegramWebhookHandler._handleMessage(message)
_handleMessage(msg, active, removed, injected) ==
    IF msg.form = "empty"
    THEN [steps |-> <<>>,
              sessions |-> tgSessions]
    ELSE IF ~_isAuthorized(msg.user, msg.chat, tgConfig.whitelist)
    THEN [steps |-> <<"unauthorized", "reply:not_authorized">>,
              sessions |-> tgSessions]
    ELSE IF msg.form = "start"
    THEN [steps |-> <<"authorized", "reply:welcome">>,
              sessions |-> tgSessions]
    ELSE LET parsed == parseCallbackData(msg.button)
             to == IF msg.form \in {"cmd", "direct"}
                   THEN [token |-> Str(toUpperCase(msg.token.val)),
                         command |-> msg.command]
                   ELSE IF /\ parsed.prefix = Str(<<"q","u","i","c","k">>)
                           /\ ~Falsy(parsed.token)
                   THEN [token |-> parsed.token, command |-> msg.command]
                   ELSE [token |-> active, command |-> msg.command]
             done == _processCommand(to.token, to.command, tgSessions, now,
                                     removed, injected)
         IN  IF Falsy(to.token)
             THEN [steps |-> <<"authorized", "reply:no_active_session">>,
              sessions |-> tgSessions]
             ELSE [steps |-> <<"authorized">> \o done.steps,
              sessions |-> done.sessions]

\* telegram-bot.js handleCallbackQuery(callbackQuery); query.chat is
\* "missing" when the query has no message or chat
handleCallbackQuery(query, injected) ==
    LET parsed == parseCallbackData(query.data) IN
    IF query.chat = "missing"
    THEN [steps |-> <<>>,
              sessions |-> tgSessions]
    ELSE IF /\ parsed.prefix = Str(<<"q","u","i","c","k">>)
            /\ ~Falsy(parsed.token)
            /\ ~Falsy(parsed.command)
    THEN LET done == processCommand(parsed.token, parsed.command, tgSessions,
                                     injected)
         IN  [steps |-> <<"answerCallbackQuery">> \o done.steps,
              sessions |-> done.sessions]
    ELSE [steps |-> <<"answerCallbackQuery">>,
              sessions |-> tgSessions]

\* TelegramWebhookHandler._handleCallbackQuery(callbackQuery)
_handleCallbackQuery(query, removed, injected) ==
    LET parsed == parseCallbackData(query.data) IN
    IF query.chat = "missing"
    THEN [steps |-> <<>>,
              sessions |-> tgSessions]
    ELSE IF Falsy(parsed.prefix)
    THEN [steps |-> <<"answerCallbackQuery">>,
              sessions |-> tgSessions]
    ELSE IF parsed.prefix = Str(<<"q","u","i","c","k">>)
    THEN IF ~Falsy(parsed.token) /\ ~Falsy(parsed.command)
         THEN LET done == _processCommand(parsed.token, parsed.command, tgSessions,
                                           now, removed, injected)
              IN  [steps |-> <<"answerCallbackQuery">> \o done.steps,
              sessions |-> done.sessions]
         ELSE [steps |-> <<"answerCallbackQuery">>,
              sessions |-> tgSessions]
    ELSE IF ~Falsy(parsed.token)
    THEN [steps |-> <<"answerCallbackQuery", "reply:info">>,
              sessions |-> tgSessions]
    ELSE [steps |-> <<"answerCallbackQuery">>,
              sessions |-> tgSessions]

\* the state after start
InitTelegram(configs, stores) ==
    /\ tgConfig \in configs
    /\ tgSessions \in stores
    /\ tgUpdate = [kind |-> "none"]
    /\ tgSteps = <<>>

\* one update taken from getUpdates or posted to the webhook, and handled;
\* active is what getActiveToken returns, removed and injected say that the
\* session file was unlinked and that the injector's calls went through
\* (Null and TRUE where the handler cannot come to it); of the fields of a
\* message that its form or the configuration leaves unread, one value is
\* taken
HandleUpdate(update, active, removed, injected) ==
    LET done == IF update.kind = "message"
                THEN IF tgConfig.program = "bot"
                     THEN handleMessage(update, active, injected)
                     ELSE _handleMessage(update, active, removed, injected)
                ELSE IF tgConfig.program = "bot"
                     THEN handleCallbackQuery(update, injected)
                     ELSE _handleCallbackQuery(update, removed, injected)
    IN  /\ active = Null \/ (update.kind = "message" /\ update.form = "plain")
        /\ removed \/ (tgConfig.program = "webhook" /\ tgSessions # <<>>)
        /\ injected \/ tgSessions # <<>>
        /\ update.kind = "message" =>
               /\ update.button = Null \/ update.form = "plain"
               /\ update.user = update.chat \/ tgConfig.whitelist # {}
        /\ tgUpdate' = update
        /\ tgSteps' = done.steps
        /\ tgSessions' = done.sessions
    /\ UNCHANGED tgConfig
    /\ UNCHANGED <<now, sessionMap, mode, ctlCommand, ctlSessionArg, ctlStatus,
                   ctlError, ctlSession, ctlLimiter, ctlCalls>>
    /\ UNCHANGED <<rlOp, rlKey, rlTime, rlResult, rlBefore, rlLog>>
    /\ UNCHANGED smartVars
    /\ UNCHANGED utilVars
    /\ UNCHANGED sweepVars
    /\ UNCHANGED tmuxVars

(***************************************************************************)
(* SmartInjector: the temp directory and its cleanup                       *)
(***************************************************************************)
\* MAX_FILE_AGE_MS, in ticks of the clock
MaxFileAge == 1

\* new SmartInjector(logger), on a temp directory that holds the files dir:
\* the interval timer is set
InitCleanup(dirs) ==
    /\ files \in dirs
    /\ cleanupInterval = TRUE
    /\ swPc = "idle"
    /\ swNow = 0
    /\ swFiles = <<>>

\* cleanup() going on to the next file of its loop
nextFile ==
    /\ swFiles' = Tail(swFiles)
    /\ swPc' = IF Tail(swFiles) = <<>> THEN "idle" ELSE "stat"

\* the interval timer fires: cleanup() reads the directory, in the order
\* listed, takes now, and awaits the stat of the first file
CleanupStart(listed) ==
    /\ cleanupInterval
    /\ swPc = "idle"
    /\ Len(listed) = Cardinality(DOMAIN files)
    /\ {listed[i] : i \in DOMAIN listed} = DOMAIN files
    /\ swNow' = now
    /\ swFiles' = listed
    /\ swPc' = IF listed = <<>> THEN "idle" ELSE "stat"
    /\ UNCHANGED <<files, cleanupInterval>>
    /\ UNCHANGED <<now, sessionMap, mode, ctlCommand, ctlSessionArg, ctlStatus,
                   ctlError, ctlSession, ctlLimiter, ctlCalls>>
    /\ UNCHANGED <<rlOp, rlKey, rlTime, rlResult, rlBefore, rlLog>>
    /\ UNCHANGED <<smartVars, utilVars, tgVars, tmuxVars>>

\* cleanup() after await fsp.stat(filePath): the age against now, and the
\* unlink awaited for a file that is too old; a stat that throws (ok false,
\* or the file is gone) is caught and the loop goes on
Stat(ok) ==
    /\ swPc = "stat"
    /\ LET file == Head(swFiles) IN
       IF ok /\ file \in DOMAIN files /\ swNow - files[file] > MaxFileAge
       THEN swPc' = "unlink" /\ UNCHANGED swFiles
       ELSE nextFile
    /\ UNCHANGED <<files, cleanupInterval, swNow>>
    /\ UNCHANGED <<now, sessionMap, mode, ctlCommand, ctlSessionArg, ctlStatus,
                   ctlError, ctlSession, ctlLimiter, ctlCalls>>
    /\ UNCHANGED <<rlOp, rlKey, rlTime, rlResult, rlBefore, rlLog>>
    /\ UNCHANGED <<smartVars, utilVars, tgVars, tmuxVars>>

\* cleanup() after await fsp.unlink(filePath): the file is gone, unless the
\* unlink threw, which is caught; the loop goes on
Unlink(ok) ==
    /\ swPc = "unlink"
    /\ LET file == Head(swFiles) IN
       files' = IF ok THEN [f \in DOMAIN files \ {file} |-> files[f]] ELSE files
    /\ nextFile
    /\ UNCHANGED <<cleanupInterval, swNow>>
    /\ UNCHANGED <<now, sessionMap, mode, ctlCommand, ctlSessionArg, ctlStatus,
                   ctlError, ctlSession, ctlLimiter, ctlCalls>>
    /\ UNCHANGED <<rlOp, rlKey, rlTime, rlResult, rlBefore, rlLog>>
    /\ UNCHANGED <<smartVars, utilVars, tgVars, tmuxVars>>

\* tryFileDropInjection: fsp.writeFile(filePath, command) of an injection
\* in flight, on the file named after its token
WriteFile(file) ==
    /\ files' = [f \in DOMAIN files \cup {file} |->
                    IF f = file THEN now ELSE files[f]]
    /\ UNCHANGED <<cleanupInterval, swPc, swNow, swFiles>>
    /\ UNCHANGED <<now, sessionMap, mode, ctlCommand, ctlSessionArg, ctlStatus,
                   ctlError, ctlSession, ctlLimiter, ctlCalls>>
    /\ UNCHANGED <<rlOp, rlKey, rlTime, rlResult, rlBefore, rlLog>>
    /\ UNCHANGED <<smartVars, utilVars, tgVars, tmuxVars>>

\* destroy(): clearInterval, and this.cleanupInterval = null
Destroy ==
    /\ cleanupInterval
    /\ cleanupInterval' = FALSE
    /\ UNCHANGED <<files, swPc, swNow, swFiles>>
    /\ UNCHANGED <<now, sessionMap, mode, ctlCommand, ctlSessionArg, ctlStatus,
                   ctlError, ctlSession, ctlLimiter, ctlCalls>>
    /\ UNCHANGED <<rlOp, rlKey, rlTime, rlResult, rlBefore, rlLog>>
    /\ UNCHANGED <<smartVars, utilVars, tgVars, tmuxVars>>

(***************************************************************************)
(* Specifications                                                          *)
(***************************************************************************)
\* one injectCommand call on a default TmuxInjector whose session exists,
\* every pane text
Init ==
    InitTmux({Null}, {TRUE}) /\ InitCtl({"tmux"}) /\ InitSmart
        /\ InitTelegram({[program |-> "bot", whitelist |-> {}]}, {<<>>})
        /\ InitCleanup({<<>>})
        /\ InitUtils({Null})

Next == Direct(1, {GoodCommand}, Captures)

Spec == Init /\ [][Next]_vars

\* one injectCommandFull call: every constructor name, token, command and
\* environment
InitInputs ==
    InitTmux(RawNames, BOOLEAN) /\ InitCtl({"tmux"}) /\ InitSmart
        /\ InitTelegram({[program |-> "bot", whitelist |-> {}]}, {<<>>})
        /\ InitCleanup({<<>>})
        /\ InitUtils({Null})

NextInputs == Full(1, Tokens, Commands, FewCaptures)

SpecInputs == InitInputs /\ [][NextInputs]_vars

\* concurrent injectCommand calls on one default TmuxInjector
NextConc == \E r \in Reqs : Direct(r, {GoodCommand}, ConcCaptures)

SpecConc == Init /\ [][NextConc]_vars

\* injectCommand calls on one ControllerInjector, as time passes
NextCtl ==
    \/ \E cmd \in CtlCommands, name \in CtlNames, exists, textOk, enterOk \in BOOLEAN :
          CtlInjectCommand(cmd, name, exists, textOk, enterOk)
    \/ Tick

InitCtlCalls ==
    InitTmux({Null}, {TRUE}) /\ InitCtl({"tmux", "pty"}) /\ InitSmart
        /\ InitTelegram({[program |-> "bot", whitelist |-> {}]}, {<<>>})
        /\ InitCleanup({<<>>})
        /\ InitUtils({Null})

SpecCtl == InitCtlCalls /\ [][NextCtl]_vars

\* calls on one RateLimiter(WindowMs, MaxCommands), as time passes
NextLimiter ==
    \/ \E key \in LimiterKeys : CheckAndRecord(key)
    \/ \E key \in LimiterKeys : Clear(key)
    \/ ClearAll
    \/ Tick

SpecLimiter == Init /\ [][NextLimiter]_vars

\* Spec, when every timer that is due fires and every resolved promise is
\* delivered: the event loop leaves no pending continuation unrun
SpecFair == Spec /\ WF_vars(Next)

\* one injectCommand call whose tmux children may never exit, under the same
\* scheduling as SpecFair
NextHang ==
    \/ Direct(1, {GoodCommand}, Captures)
    \/ NeverExits(1, GoodCommand)

SpecHang == Init /\ [][NextHang]_vars /\ WF_vars(NextHang)

\* one SmartInjector.injectCommand call: every token and command, every way
\* the clipboard, the scripts and the file system can answer
SmartTokens == Tokens \cup {Null}

NextSmart ==
    \/ \E tok \in SmartTokens, cmd \in Commands \cup {Null} :
          SmartInjectCommand(tok, cmd)
    \/ \E clipOk, writeOk, openOk, deskOk \in BOOLEAN, script \in ScriptEnds :
          TryMethod(clipOk, script, writeOk, openOk, deskOk)

SpecSmart == Init /\ [][NextSmart]_vars

\* the functions of webhook-utils.js and shared.js called on every argument
InitUtilCalls ==
    InitTmux({Null}, {TRUE}) /\ InitCtl({"tmux"}) /\ InitSmart
        /\ InitTelegram({[program |-> "bot", whitelist |-> {}]}, {<<>>})
        /\ InitCleanup({<<>>})
        /\ InitUtils(UtilArgs)

NextUtils ==
    \/ ValidateToken
    \/ ValidateCommand
    \/ EscapeForAppleScript
    \/ SharedEscapeForAppleScript

SpecUtils == InitUtilCalls /\ [][NextUtils]_vars

\* updates handled by the polling bot or by the webhook handler, the latter
\* without a whitelist and with one that names the configured chat, on a
\* store that holds no session or one for GoodToken, as time passes; the
\* updates: messages of every form of text from each chat and user, with a
\* token in lower case, with and without a quick button on the message
\* replied to, with and without an active token; callback queries with and
\* without a chat, for a quick action with the stored and with an ill-formed
\* token, with a blank command and without one, for an info button and with
\* an empty prefix
NextTelegram ==
    \/ \E update \in
             [kind : {"message"}, chat : {ConfiguredChat, "stranger"},
              user : {ConfiguredChat, "stranger"},
              form : {"empty", "start", "cmd", "direct", "plain"},
              token : {Str(<<"a","b","c","d","1","2","3","4">>)},
              command : {GoodCommand},
              button : {Null, Str(<<<<"q","u","i","c","k">>, GoodToken.val,
                                    GoodCommand.val>>)}]
             \cup
             [kind : {"callback_query"},
              chat : {ConfiguredChat, "stranger", "missing"},
              data : {Null,
                      Str(<<<<"q","u","i","c","k">>, GoodToken.val, GoodCommand.val>>),
                      Str(<<<<"q","u","i","c","k">>, <<"x">>, GoodCommand.val>>),
                      Str(<<<<"q","u","i","c","k">>, GoodToken.val, <<" ">>>>),
                      Str(<<<<"q","u","i","c","k">>, GoodToken.val>>),
                      Str(<<<<"p","e","r","s","o","n","a","l">>, GoodToken.val>>),
                      Str(<<<<>>, GoodToken.val, GoodCommand.val>>)}],
          active \in {Null, GoodToken}, removed, injected \in BOOLEAN :
          HandleUpdate(update, active, removed, injected)
    \/ Tick

InitTelegramRuns ==
    /\ InitTmux({Null}, {TRUE}) /\ InitCtl({"tmux"}) /\ InitSmart
    /\ InitUtils({Null})
    /\ InitTelegram({[program |-> "bot", whitelist |-> {}]}
                        \cup [program : {"webhook"},
                              whitelist : {{}, {ConfiguredChat}}],
                    {<<>>} \cup {[t \in {GoodToken.val} |-> [expiresAt |-> e]] :
                                    e \in {1, MaxTime + 1}})
    /\ InitCleanup({<<>>})

SpecTelegram == InitTelegramRuns /\ [][NextTelegram]_vars

\* one SmartInjector: its timer firing, its sweeps, the file writes of
\* injections in flight for two tokens, destroy(), as time passes
NextCleanup ==
    \/ \E listed \in {<<>>, <<"a">>, <<"b">>, <<"a", "b">>, <<"b", "a">>} :
          CleanupStart(listed)
    \/ \E ok \in BOOLEAN : Stat(ok)
    \/ \E ok \in BOOLEAN : Unlink(ok)
    \/ \E file \in {"a", "b"} : WriteFile(file)
    \/ Destroy
    \/ Tick

InitCleanupRuns ==
    /\ InitTmux({Null}, {TRUE}) /\ InitCtl({"tmux"}) /\ InitSmart
    /\ InitUtils({Null})
    /\ InitTelegram({[program |-> "bot", whitelist |-> {}]}, {<<>>})
    /\ InitCleanup({<<>>, [f \in {"a"} |-> 0], [f \in {"a", "b"} |-> 0]})

SpecCleanup == InitCleanupRuns /\ [][NextCleanup]_vars

(***************************************************************************)
(* Properties                                                              *)
(***************************************************************************)
\* the payloads of a sequence of send-keys calls
Payloads(sent) == [i \in 1..Len(sent) |-> sent[i].payload]

\* the send-keys calls among the calls of the last ControllerInjector call
CtlSendKeys == SelectSeq(ctlCalls, LAMBDA c : c.prog = "send-keys")

\* request r is between its first keystroke and the end of its confirmation
\* handling
InCritical(r) ==
    pc[r] \in {"clearWait", "textWait", "enterWait", "stateAwait", "pollWait",
               "answerWait", "settle", "backoff", "finalAwait"}

\* request r is inside handleConfirmations
InHandler(r) ==
    pc[r] \in {"pollWait", "answerWait", "settle", "backoff", "finalAwait"}

\* the poll loop of request r is over
LoopEnded(r) == pc[r] \in {"finalAwait", "injectAwait", "done"}

\* the step sends a key on behalf of request r: a step of its command that
\* tmux accepts, or an answer of its confirmation handling
SendsKey(r) ==
    \/ cmdKeys'[r] # cmdKeys[r] /\ cmdKeys'[r][Len(cmdKeys'[r])].ok
    \/ keys'[r] # keys[r] /\ keys'[r] # <<>>

\* ^[A-Za-z0-9_-]+$
ValidIdent(s) == s # <<>> /\ \A i \in 1..Len(s) : s[i] \in IdentChars

\* C1: every tmux injection sends the command as three send-keys calls, the
\* clear-input key, then the command text, then the execute key; a step is
\* sent only after the one before it succeeded, and no injection path skips
\* the clear-input step (TmuxInjector.injectCommand and
\* ControllerInjector._injectTmux).
C1_ThreeStepSequence ==
    /\ \A r \in Reqs :
         LET n == Len(cmdKeys[r]) IN
         /\ n <= 3
         /\ entry[r] # "none" =>
              Payloads(cmdKeys[r])
                = SubSeq(<<KeyClear, command[r].val, KeyExecute>>, 1, n)
         /\ \A i \in 1..(n - 1) : cmdKeys[r][i].ok
         /\ pc[r] \in {"enterWait", "stateAwait", "pollWait"} => n = 3
    /\ mode = "tmux" /\ CtlSendKeys # <<>> =>
         /\ Len(CtlSendKeys) <= 3
         /\ CtlSendKeys[1].payload = KeyClear
         /\ ctlStatus = "returned" => Len(CtlSendKeys) = 3

\* C2: requests on the same session are serialized: while one request is
\* between its first keystroke and the end of its confirmation handling, no
\* key of another request is sent.
C2_SameSessionSerialized ==
    [][\A r, q \in Reqs : (r # q /\ InCritical(r)) => ~SendsKey(q)]_vars

\* C3: a request whose token or command fails validation fails at once, with
\* no external call and no rate-limit timestamp; only the validated, trimmed
\* command text reaches send-keys.
C3_ValidationFirst ==
    /\ \A r \in Reqs :
         /\ (/\ entry[r] = "injectCommandFull"
             /\ \/ validateToken(token[r]) = Null
                \/ ~validateCommand(command[r]).valid)
            => /\ made[r] = {}
               /\ pc[r] = "done"
               /\ ~result[r].success
         /\ Len(cmdKeys[r]) >= 2 =>
              /\ validateCommand(command[r]).valid
              /\ cmdKeys[r][2].payload = validateCommand(command[r]).command
    /\ (ctlStatus # "none" /\ ~validateCommand(ctlCommand).valid) =>
         /\ ctlStatus = "threw"
         /\ ctlCalls = <<>>
         /\ ctlLimiter = "notAsked"
    /\ \A i \in 1..Len(ctlCalls) :
         ctlCalls[i].prog = "send-keys" /\ ctlCalls[i].payload # KeyEnter =>
             /\ validateCommand(ctlCommand).valid
             /\ ctlCalls[i].payload = validateCommand(ctlCommand).command

\* C4: every session identifier passed to an external process call is
\* non-empty and matches ^[A-Za-z0-9_-]+$; a name that sanitizing empties is
\* rejected and never used.
C4_SessionIdentifierSafe ==
    /\ \A r \in Reqs :
         (made[r] \ {"which"}) # {} => ValidIdent(sessionName)
    /\ \A i \in 1..Len(ctlCalls) :
         ctlCalls[i].prog # "osascript" => ValidIdent(ctlCalls[i].target)

\* C5: handleConfirmations always ends, without throwing, after at most 8
\* polls whatever the captures return: the polls are numbered 1, 2, ... in
\* steps of one, none above 8, and when 8 polls in a row return unrecognized
\* text the loop ends right after the 8th.
C5_BoundedPolling ==
    /\ [](\A r \in Reqs :
            /\ polled[r] <= maxAttempts
            /\ attempts[r] = IF pc[r] = "pollWait" THEN polled[r] + 1
                             ELSE polled[r]
            /\ unrecognized[r] <= polled[r]
            /\ unrecognized[r] = maxAttempts => LoopEnded(r)
            /\ (pc[r] \in {"injectAwait", "done"} /\ polled[r] > 0) =>
                   injectResult[r].success)
    /\ [][\A r \in Reqs :
            polled'[r] # polled[r] =>
                /\ polled'[r] = polled[r] + 1
                /\ attempts[r] = polled'[r]]_vars
    /\ []<>(\A r \in Reqs : ~InHandler(r))

C5_Witness ==
    /\ unrecognized[1] = maxAttempts
    /\ polled[1] = maxAttempts
    /\ pc[1] = "injectAwait"
    /\ injectResult[1].success

\* the last capture of request r succeeded and holds all of these markers
Captured(r, markers) ==
    /\ polled[r] > 0
    /\ capture[r].success
    /\ \A m \in markers : includes(capture[r].output, m)

\* after its last poll request r goes on polling: it is still in the branch
\* of that poll, or waits for the next poll, or has used up its attempts
GoesOn(r) ==
    \/ pc[r] \in {"answerWait", "settle", "backoff", "pollWait"}
    \/ LoopEnded(r) /\ attempts[r] = maxAttempts

\* C6: on a poll whose text holds "Do you want to proceed?", "1. Yes" and
\* "2. Yes, and don't ask again" the handler sends "2" and then the execute
\* key, sends neither "1" nor "y" in that poll, and goes on polling.
C6_MultiOptionPicksTwo ==
    \A r \in Reqs :
        Captured(r, FullDialog) =>
            /\ keys[r] = IF pc[r] = "answerWait" THEN <<<<"2">>>>
                                   ELSE <<<<"2">>, KeyEnter>>
            /\ \A i \in 1..Len(keys[r]) : keys[r][i] \notin {<<"1">>, <<"y">>}
            /\ GoesOn(r)

C6_Witness ==
    /\ Captured(1, FullDialog)
    /\ pc[1] = "settle"
    /\ keys[1] = <<<<"2">>, KeyEnter>>
    /\ attempts[1] < maxAttempts

\* the rules of a poll in their order of precedence
RuleOrder ==
    <<"multi", "single", "yesno", "enter", "busy", "prompt", "error", "none">>

\* the pattern of each rule on a captured text
Pattern(name, text) ==
    CASE name = "multi" ->
            /\ includes(text, "proceed")
            /\ includes(text, "opt1") \/ includes(text, "opt2")
      [] name = "single" -> includes(text, "sel1")
      [] name = "yesno" -> includes(text, "yn") \/ includes(text, "ynBracket")
      [] name = "enter" -> includes(text, "enter")
      [] name = "busy" -> includes(text, "busy")
      [] name = "prompt" ->
            /\ includes(text, "prompt")
            /\ ~includes(text, "proceed")
            /\ ~includes(text, "opt1")
            /\ ~includes(text, "yn")
      [] name = "error" -> includes(text, "error")
      [] name = "none" -> TRUE

\* the first rule in the order whose pattern matches the text
FirstMatch(text) ==
    RuleOrder[CHOOSE i \in DOMAIN RuleOrder :
                /\ Pattern(RuleOrder[i], text)
                /\ \A j \in 1..(i - 1) : ~Pattern(RuleOrder[j], text)]

\* the keys a rule sends, in order
KeysOf(name) ==
    CASE name = "multi" -> <<<<"2">>, KeyEnter>>
      [] name = "single" -> <<<<"1">>, KeyEnter>>
      [] name = "yesno" -> <<<<"y">>, KeyEnter>>
      [] name = "enter" -> <<KeyEnter>>
      [] OTHER -> <<>>

\* C7: in every poll the handler applies exactly one rule, the first whose
\* pattern matches the captured text in the order multi-option, single-option,
\* yes/no, press-Enter, processing, quiescent prompt, error, none; it takes no
\* action of a rule of lower precedence in that poll (a text with a prompt and
\* an error marker ends as completed, one with a processing indicator and an
\* error marker keeps polling).
C7_FirstMatchWins ==
    \A r \in Reqs :
        (polled[r] > 0 /\ capture[r].success) =>
            LET first == FirstMatch(capture[r].output) IN
            /\ rule[r] = first
            /\ keys[r] =
                   IF pc[r] = "answerWait" THEN SubSeq(KeysOf(first), 1, 1)
                   ELSE KeysOf(first)
            /\ pc[r] = "answerWait" => first \in {"multi", "single", "yesno"}
            /\ pc[r] = "settle" => first = "multi"
            /\ pc[r] = "backoff" => first = "none"
            /\ IF first \in {"prompt", "error"}
               THEN LoopEnded(r)
               ELSE GoesOn(r)

C7_Witness ==
    /\ polled[1] = 1
    /\ capture[1] = [success |-> TRUE, output |-> {"prompt", "error"}]
    /\ rule[1] = "prompt"
    /\ pc[1] = "finalAwait"

\* C8: on a poll whose text holds a yes/no marker, (y/n), [Y/n] or [y/N], and
\* matches neither the multi-option nor the single-option confirmation, the
\* handler sends "y" and then the execute key, and goes on polling.
C8_YesNoAnswersY ==
    \A r \in Reqs :
        (/\ polled[r] > 0
         /\ capture[r].success
         /\ Pattern("yesno", capture[r].output)
         /\ ~Pattern("multi", capture[r].output)
         /\ ~Pattern("single", capture[r].output))
        => /\ keys[r] = IF pc[r] = "answerWait" THEN <<<<"y">>>>
                                  ELSE <<<<"y">>, KeyEnter>>
           /\ GoesOn(r)
           /\ pc[r] \notin {"settle", "backoff"}

C8_Witness ==
    /\ capture[1] = [success |-> TRUE, output |-> {"ynBracket"}]
    /\ keys[1] = <<<<"y">>, KeyEnter>>
    /\ pc[1] = "pollWait"
    /\ attempts[1] = 2

\* C9: when a capture fails during confirmation handling the poll loop ends
\* at once, without throwing and without sending a further key, and
\* injectCommand does not fail on it.
C9_CaptureFailureEndsLoop ==
    \A r \in Reqs :
        (polled[r] > 0 /\ ~capture[r].success) =>
            /\ rule[r] = "captureFailed"
            /\ LoopEnded(r)
            /\ keys[r] = <<>>
            /\ pc[r] # "finalAwait" => injectResult[r].success

C9_Witness ==
    /\ polled[1] = 2
    /\ ~capture[1].success
    /\ pc[1] = "injectAwait"
    /\ injectResult[1].success

\* C10: when checkAndRecord denies the resolved session key, injectCommand
\* is refused with a rate-limit error and makes no session check and no
\* keystroke call.
C10_DeniedMakesNoCall ==
    ctlLimiter = "denied" =>
        /\ ctlStatus = "threw"
        /\ ctlError = "Rate limit exceeded"
        /\ ctlCalls = <<>>

C10_Witness ==
    /\ ctlLimiter = "denied"
    /\ ctlStatus = "threw"
    /\ mode = "tmux"
    /\ Len(sessionMap[ctlSession]) = MaxCommands

\* the timestamps a map holds for a key
Recorded(map, key) == IF key \in DOMAIN map THEN map[key] ELSE <<>>

\* the timestamps of a sequence that are not older than the bound
NotOlder(timestamps, bound) == SelectSeq(timestamps, LAMBDA ts : ts >= bound)

\* C11: checkAndRecord(key) at time now first evicts exactly the timestamps
\* older than now - W (one equal to now - W is kept), then returns true and
\* appends now iff fewer than M remain; otherwise it returns false and
\* records nothing.
C11_EvictThenAdmit ==
    rlOp = "check" =>
        LET kept == NotOlder(Recorded(rlBefore, rlKey), rlTime - WindowMs) IN
        /\ rlResult = (Len(kept) < MaxCommands)
        /\ Recorded(sessionMap, rlKey) = IF rlResult THEN Append(kept, rlTime)
                                         ELSE kept

\* C12: after any sequence of checkAndRecord, clear and clearAll calls every
\* session key holds at most M timestamps.
C12_AtMostMaxTimestamps ==
    \A key \in DOMAIN sessionMap : Len(sessionMap[key]) <= MaxCommands

C12_Witness ==
    /\ rlOp = "check"
    /\ ~rlResult
    /\ Len(Recorded(sessionMap, rlKey)) = MaxCommands
    /\ \E key \in DOMAIN sessionMap : key # rlKey

\* C13: checkAndRecord(k) and clear(k) leave the timestamps of every other
\* key as they were, so what checkAndRecord answers for another key does not
\* change when k's budget is used up.
C13_OtherKeysUntouched ==
    rlOp \in {"check", "clear"} =>
        \A key \in LimiterKeys \ {rlKey} :
            /\ (key \in DOMAIN sessionMap) = (key \in DOMAIN rlBefore)
            /\ Recorded(sessionMap, key) = Recorded(rlBefore, key)
            /\ checkAndRecord(sessionMap, key, now).allowed
                 = checkAndRecord(rlBefore, key, now).allowed

C13_Witness ==
    /\ rlOp = "check"
    /\ ~rlResult
    /\ \E key \in LimiterKeys \ {rlKey} :
          /\ Recorded(sessionMap, key) # <<>>
          /\ checkAndRecord(sessionMap, key, now).allowed

\* the calls on record before the i-th that were admitted for its key inside
\* its window
AdmittedBefore(i) ==
    {j \in 1..(i - 1) : /\ rlLog[j].key = rlLog[i].key
                        /\ rlLog[j].allowed
                        /\ rlLog[j].time > rlLog[i].time - WindowMs}

\* C14: checkAndRecord is atomic per key: whatever the order in which the
\* calls of concurrent requests run, each call is answered as a sequential
\* limiter answers it in that order, and no window of a key ever holds more
\* than M admitted calls (two calls never take the same last free slot).
C14_AtomicPerKey ==
    /\ \A i \in DOMAIN rlLog :
          rlLog[i].allowed = (Cardinality(AdmittedBefore(i)) < MaxCommands)
    /\ \A key \in LimiterKeys, t \in 0..MaxTime :
          Cardinality({i \in DOMAIN rlLog : /\ rlLog[i].key = key
                                            /\ rlLog[i].allowed
                                            /\ rlLog[i].time > t - WindowMs
                                            /\ rlLog[i].time <= t})
            <= MaxCommands

C14_Witness ==
    \E i \in 1..(Len(rlLog) - 1) :
        /\ rlLog[i].key = rlLog[i + 1].key
        /\ rlLog[i].time = rlLog[i + 1].time
        /\ rlLog[i].allowed
        /\ ~rlLog[i + 1].allowed
        /\ Cardinality(AdmittedBefore(i)) = MaxCommands - 1

\* C15: after clear(key) the next checkAndRecord(key) returns true whatever
\* was recorded for the key, and after clearAll() the next checkAndRecord of
\* every key returns true.
C15_ClearResets ==
    /\ rlOp = "clear" => checkAndRecord(sessionMap, rlKey, now).allowed
    /\ rlOp = "clearAll" =>
          \A key \in LimiterKeys : checkAndRecord(sessionMap, key, now).allowed
    /\ \A i \in DOMAIN rlLog :
          (\A j \in 1..(i - 1) : rlLog[j].key # rlLog[i].key) => rlLog[i].allowed

C15_Witness ==
    /\ rlOp = "clear"
    /\ rlTime = now
    /\ Len(Recorded(rlBefore, rlKey)) = MaxCommands
    /\ ~checkAndRecord(rlBefore, rlKey, now).allowed
    /\ checkAndRecord(sessionMap, rlKey, now).allowed

\* request r is an injectCommandFull call that found tmux but no session and
\* whose session creation failed on the primary and the fallback command
CreationFailedBoth(r) ==
    /\ entry[r] = "injectCommandFull"
    /\ pc[r] \in {"createAwait", "done"}
    /\ tmuxAvailable[r]
    /\ ~sessionExists[r]
    /\ ~createResult[r].success
    /\ createResult[r] # NoResult

\* C16: when the session does not exist and its creation fails on both the
\* primary and the fallback start command, the request returns
\* {success: false, error: "session_creation_failed"} after one creation
\* attempt, one primary and one fallback start and no more, and sends no key.
C16_CreationFailureNoRetry ==
    \A r \in Reqs :
        /\ creations[r] <= 2
        /\ CreationFailedBoth(r) =>
              /\ creations[r] = 2
              /\ cmdKeys[r] = <<>>
              /\ keys[r] = <<>>
              /\ made[r] = {"which", "has-session", "new-session"}
              /\ pc[r] = "done" =>
                    result[r] = Result(FALSE, "session_creation_failed",
                                       createResult[r].error, <<>>)
        /\ result[r].error = "session_creation_failed" => CreationFailedBoth(r)

C16_Witness ==
    /\ CreationFailedBoth(1)
    /\ pc[1] = "done"
    /\ result[1].error = "session_creation_failed"
    /\ creations[1] = 2

\* C17: when the backend program is unavailable the request returns a
\* failure with error backend_unavailable after the one availability check,
\* with no session check, session creation, keystroke or capture call.
C17_BackendUnavailable ==
    \A r \in Reqs :
        (entry[r] = "injectCommandFull" /\ pc[r] = "done" /\ ~tmuxAvailable[r]) =>
            /\ ~result[r].success
            /\ result[r].error = "backend_unavailable"
            /\ made[r] = {"which"}
            /\ creations[r] = 0
            /\ cmdKeys[r] = <<>>
            /\ polled[r] = 0

\* the error injectCommand resolves with when its i-th step fails
StepError(i) ==
    CASE i = 1 -> "Failed to clear input"
      [] i = 2 -> "Failed to send command"
      [] i = 3 -> "Failed to send enter"

\* a step of request r's command failed
StepFailed(r) == \E i \in 1..Len(cmdKeys[r]) : ~cmdKeys[r][i].ok

\* C18: when one of the three keystroke steps fails the injection aborts: no
\* later step is sent, confirmation handling is not started, and the result
\* is {success: false, error: "injection_failed"} with the failing step's
\* error as message.
C18_StepFailureAborts ==
    \A r \in Reqs :
        StepFailed(r) =>
            LET n == Len(cmdKeys[r]) IN
            /\ \A i \in 1..(n - 1) : cmdKeys[r][i].ok
            /\ pc[r] \in {"injectAwait", "done"}
            /\ injectResult[r] = Result(FALSE, StepError(n), "", <<>>)
            /\ attempts[r] = 0
            /\ polled[r] = 0
            /\ keys[r] = <<>>
            /\ "capture-pane" \notin made[r]
            /\ (entry[r] = "injectCommandFull" /\ pc[r] = "done") =>
                  result[r] = Result(FALSE, "injection_failed", StepError(n), <<>>)

C18_Witness ==
    /\ entry[1] = "injectCommandFull"
    /\ pc[1] = "done"
    /\ Len(cmdKeys[1]) = 3
    /\ ~cmdKeys[1][3].ok
    /\ result[1] = Result(FALSE, "injection_failed", "Failed to send enter", <<>>)

\* the records of the injection log written for request r's command
RecordsOf(r) ==
    {i \in DOMAIN logFile :
        logFile[i] = [command |-> command[r], session |-> sessionName]}

\* C19: a successful injection goes in this order: the keystrokes, then the
\* confirmation handling to its end, then the log entry appended, then the
\* success result with the session identifier; while the handler still polls
\* no result is returned and no log entry written.
C19_OrderOfCompletion ==
    \A r \in Reqs :
        /\ result[r].success =>
              /\ Len(cmdKeys[r]) = 3
              /\ \A i \in 1..3 : cmdKeys[r][i].ok
              /\ polled[r] >= 1
              /\ LoopEnded(r)
              /\ RecordsOf(r) # {}
              /\ result[r].session = sessionName
        /\ (InCritical(r) /\ entry[r] = "injectCommandFull") =>
              /\ result[r] = NoResult
              /\ RecordsOf(r) = {}
        /\ RecordsOf(r) # {} => injectResult[r].success

\* request r's injection attempt is over: injectCommand has resolved
Completed(r) == cmdKeys[r] # <<>> /\ pc[r] \in {"injectAwait", "done"}

\* C20: the injection log is append-only and gets exactly one record per
\* completed injection attempt, successful or failed; records are never
\* changed or removed.
C20_OneRecordPerAttempt ==
    /\ [](Len(logFile) = Cardinality({r \in Reqs : Completed(r)}))
    /\ [][/\ Len(logFile') >= Len(logFile)
          /\ SubSeq(logFile', 1, Len(logFile)) = logFile]_vars

\* request r's call has handed its caller a structured result
Structured(r) ==
    /\ pc[r] = "done"
    /\ result[r] # NoResult
    /\ result[r].success \in BOOLEAN

\* C21: injectCommand never lets an error escape as an exception or a
\* rejected promise: whatever the input and whatever fails (validation, rate
\* limit, missing session, failed keystroke), the call ends with a structured
\* result {success, error, message}, both in TmuxInjector.injectCommandFull
\* and in ControllerInjector.injectCommand.
C21_NoErrorEscapes ==
    /\ \A r \in Reqs :
         (entry[r] = "injectCommandFull" /\ pc[r] = "done") => Structured(r)
    /\ ctlStatus # "threw"

\* request r's injectCommand call has resolved
Returned(r) == pc[r] \in {"injectAwait", "done"}

\* C22: every external process call of an injection is bounded by a timeout
\* that turns into an error value: no call waits for ever on a process that
\* never exits, in TmuxInjector or in ControllerInjector, so every
\* injectCommand call eventually returns.
C22_CallsTimeOut ==
    /\ [](\A r \in Reqs : pc[r] # "blocked")
    /\ \A exit \in Exits : execFileSync(exit, CtlTimeout) # "blocked"
    /\ <>(\A r \in Reqs : Returned(r))

\* the strategies in the order of the fallback chain: direct automation,
\* file drop, persistent reminder, last resort
ChainOrder ==
    <<"tryAppleScriptInjection",
      "tryFileDropInjection",
      "tryClipboardWithPersistentNotification",
      "tryUrgentClipboard">>

\* the k-th strategy tried did not report success
FailedAt(k) == smTried[k].end # "success"

C24_StrategiesIsolated ==
    /\ smResult # "rejected"
    /\ \A k \in 1..Len(smTried) :
         smTried[k].end = "threw" =>
            /\ LogLine("error", k, "exception") \in
                   {smLog[j] : j \in 1..Len(smLog)}
            /\ k < Len(methods) =>
                  \/ /\ Len(smTried) > k
                     /\ smTried[k + 1].method = ChainOrder[k + 1]
                  \/ /\ Len(smTried) = k
                     /\ smPc = "trying"
                     /\ smIndex = k + 1

C24_Witness ==
    /\ Len(smTried) >= 2
    /\ smTried[1].end = "threw"
    /\ smTried[1].calls = <<"pbcopy">>
    /\ smTried[2].method = "tryFileDropInjection"

\* ^[A-Za-z0-9]{8}$
TokenPattern(s) ==
    /\ Len(s) = 8
    /\ \A i \in 1..Len(s) : s[i] \in Upper \cup Lower \cup Digit

\* the text with each of a-z replaced by its capital
Capitals(s) ==
    [i \in 1..Len(s) |->
        IF s[i] \in Lower
        THEN UpperSeq[CHOOSE j \in 1..Len(LowerSeq) : LowerSeq[j] = s[i]]
        ELSE s[i]]

\* C25: for every input, validateToken returns the uppercased input iff the
\* input is a string matching ^[A-Za-z0-9]{8}$, and null otherwise: for
\* non-strings, wrong lengths, whitespace, and any input with a shell
\* metacharacter or a character outside A-Z, a-z, 0-9.
C25_ValidateToken ==
    utFn = "validateToken" =>
        IF IsString(utArg) /\ TokenPattern(utArg.val)
        THEN utOut = Str(Capitals(utArg.val))
        ELSE utOut = Null

\* the text without its leading and trailing whitespace
Trimmed(s) ==
    IF \A i \in 1..Len(s) : s[i] \in Whitespace THEN <<>>
    ELSE LET lo == CHOOSE i \in 1..Len(s) :
                       s[i] \notin Whitespace
                           /\ \A j \in 1..(i - 1) : s[j] \in Whitespace
             hi == CHOOSE i \in 1..Len(s) :
                       s[i] \notin Whitespace
                           /\ \A j \in (i + 1)..Len(s) : s[j] \in Whitespace
         IN  [i \in 1..(hi - lo + 1) |-> s[lo + i - 1]]

\* C26: validateCommand returns valid with the trimmed text iff the input is
\* a string whose trimmed length is between 1 and MAX_COMMAND_LENGTH
\* inclusive; otherwise it returns invalid, with the "too long" error when
\* the trimmed length exceeds the maximum; a validated text is never empty
\* and never longer than the maximum.
C26_ValidateCommand ==
    utFn = "validateCommand" =>
        LET ok == /\ IsString(utArg)
                  /\ Len(Trimmed(utArg.val)) >= 1
                  /\ Len(Trimmed(utArg.val)) <= MAX_COMMAND_LENGTH
        IN  /\ utOut.valid <=> ok
            /\ utOut.valid =>
                  /\ utOut.command = Trimmed(utArg.val)
                  /\ Len(utOut.command) \in 1..MAX_COMMAND_LENGTH
            /\ (IsString(utArg) /\ Len(Trimmed(utArg.val)) > MAX_COMMAND_LENGTH) =>
                  utOut.error = "Command too long"

C26_Witness ==
    /\ utFn = "validateCommand"
    /\ utArg = Str(<<" ">> \o Long(MAX_COMMAND_LENGTH) \o <<"\n">>)
    /\ utOut.valid
    /\ Len(utOut.command) = MAX_COMMAND_LENGTH

\* the text with each backslash, double quote, newline, carriage return and
\* tab replaced by its two-character escape sequence, taken one character at
\* a time
RECURSIVE Escaped(_)
Escaped(s) ==
    IF s = <<>> THEN <<>>
    ELSE LET c == Head(s)
             e == CASE c = "\\" -> <<"\\", "\\">>
                    [] c = "\"" -> <<"\\", "\"">>
                    [] c = "\n" -> <<"\\", "n">>
                    [] c = "\r" -> <<"\\", "r">>
                    [] c = "\t" -> <<"\\", "t">>
                    [] OTHER -> <<c>>
         IN  e \o Escaped(Tail(s))

\* C27: escapeForAppleScript, in webhook-utils.js and in shared.js, replaces
\* every backslash, double quote, newline, carriage return and tab of its
\* input by a two-character escape sequence and leaves every other character
\* unchanged; its output holds no literal newline, carriage return or tab,
\* and every double quote of it comes right after an odd run of backslashes;
\* an empty or undefined input yields the empty string.
C27_EscapeForAppleScript ==
    utFn \in {"escapeForAppleScript", "sharedEscapeForAppleScript"} =>
        /\ utArg = Null => utOut = Str(<<>>)
        /\ IsString(utArg) =>
              /\ utOut = Str(Escaped(utArg.val))
              /\ utArg.val = <<>> => utOut.val = <<>>
              /\ \A i \in 1..Len(utOut.val) :
                    /\ utOut.val[i] \notin {"\n", "\r", "\t"}
                    /\ utOut.val[i] = "\"" =>
                          \E r \in 1..(i - 1) :
                              /\ r % 2 = 1
                              /\ \A j \in (i - r)..(i - 1) : utOut.val[j] = "\\"
                              /\ i - r = 1 \/ utOut.val[i - r - 1] # "\\"

C27_Witness ==
    /\ utFn = "sharedEscapeForAppleScript"
    /\ utArg = Str(<<"\\", "\"">>)
    /\ utOut = Str(<<"\\", "\\", "\\", "\"">>)

\* C28: the handler sends the answer "2" only on a poll whose captured text
\* holds the proceed question together with the option "2. Yes, and don't
\* ask again"; a text with the proceed question and only a "1. Yes" option is
\* never answered with "2".
C28_TwoOnlyWithOptionTwo ==
    \A r \in Reqs :
        (\E i \in 1..Len(keys[r]) : keys[r][i] = <<"2">>) =>
            Captured(r, {"proceed", "opt2"})

\* C29: on a poll whose text holds an error marker and matches no rule of
\* higher precedence the handler stops polling and sends no key, and the
\* injection ends as aborted with the reason error_detected, which the caller
\* can tell from a completed one.
C29_ErrorAborts ==
    \A r \in Reqs :
        (/\ polled[r] > 0
         /\ capture[r].success
         /\ FirstMatch(capture[r].output) = "error")
        => /\ LoopEnded(r)
           /\ keys[r] = <<>>
           /\ Returned(r) =>
                 injectResult[r] = Result(FALSE, "error_detected", "", <<>>)

\* the last capture of request r shows a new input prompt and nothing that
\* asks for an answer or tells of work going on
Quiescent(r) ==
    /\ Captured(r, {"prompt"})
    /\ \A m \in {"proceed", "opt1", "opt2", "sel1", "yn", "ynBracket",
                 "enter", "busy"} : ~includes(capture[r].output, m)

\* C30: on a poll whose text shows an input prompt and no confirmation
\* marker, no yes/no marker, no Enter prompt and no processing indicator, the
\* handler is done: the loop ends at that poll whatever number of attempts
\* remains, no key is sent in it, and no poll and no key follows.
C30_PromptCompletes ==
    /\ [](\A r \in Reqs :
            Quiescent(r) =>
                /\ rule[r] = "prompt"
                /\ LoopEnded(r)
                /\ keys[r] = <<>>
                /\ attempts[r] = polled[r])
    /\ [][\A r \in Reqs :
            Quiescent(r) =>
                /\ polled'[r] = polled[r]
                /\ keys'[r] = keys[r]
                /\ cmdKeys'[r] = cmdKeys[r]]_vars

C30_Witness ==
    /\ capture[1] = [success |-> TRUE, output |-> {"prompt"}]
    /\ polled[1] = 2
    /\ attempts[1] = 2
    /\ keys[1] = <<>>
    /\ pc[1] = "injectAwait"
    /\ injectResult[1].success

\* the last capture of request r succeeded, matches the named rule and none
\* of the others named
Matches(r, name, others) ==
    /\ polled[r] > 0
    /\ capture[r].success
    /\ Pattern(name, capture[r].output)
    /\ \A o \in others : ~Pattern(o, capture[r].output)

\* C31: on a poll whose text holds a processing indicator and no
\* confirmation, yes/no or Enter prompt, the handler sends no key and keeps
\* polling without an extra wait, also when the text holds an input prompt or
\* an error marker; the poll counts as one of the 8 attempts.
C31_ProcessingKeepsPolling ==
    \A r \in Reqs :
        Matches(r, "busy", {"multi", "single", "yesno", "enter"}) =>
            /\ rule[r] = "busy"
            /\ keys[r] = <<>>
            /\ GoesOn(r)
            /\ pc[r] \notin {"answerWait", "settle", "backoff"}
            /\ polled[r] <= maxAttempts
            /\ attempts[r] = IF pc[r] = "pollWait" THEN polled[r] + 1
                             ELSE polled[r]

C31_Witness ==
    /\ capture[1] = [success |-> TRUE, output |-> {"busy", "error"}]
    /\ polled[1] = 1
    /\ attempts[1] = 2
    /\ pc[1] = "pollWait"
    /\ keys[1] = <<>>

\* C32: on a poll whose text holds a highlighted "1. Yes" marker and does not
\* match the multi-option rule, the handler sends "1" and then the execute
\* key, and goes on polling.
C32_SingleOptionAnswersOne ==
    \A r \in Reqs :
        Matches(r, "single", {"multi"}) =>
            /\ rule[r] = "single"
            /\ keys[r] = IF pc[r] = "answerWait" THEN <<<<"1">>>>
                                   ELSE <<<<"1">>, KeyEnter>>
            /\ GoesOn(r)

C32_Witness ==
    /\ capture[1] = [success |-> TRUE, output |-> {"sel1", "prompt"}]
    /\ keys[1] = <<<<"1">>, KeyEnter>>
    /\ pc[1] = "pollWait"
    /\ attempts[1] = 2

\* C33: after every auto-answered prompt (multi-option, single-option, yes/no
\* or press-Enter) an additional settle delay elapses, on top of the regular
\* wait between polls, before the next capture: the wait for the next poll
\* is entered, after such an answer, only from the settle delay.
C33_SettleAfterAnswer ==
    [][\A r \in Reqs :
          (/\ rule'[r] \in {"multi", "single", "yesno", "enter"}
           /\ attempts'[r] = attempts[r] + 1
           /\ pc'[r] = "pollWait")
          => pc[r] = "settle"]_vars

\* C34: TmuxInjector.injectCommand resolves with success whenever its three
\* keystroke steps succeeded, however confirmation handling ended: on an
\* error marker, on a failed capture, or with the 8 attempts used up.
C34_SuccessWhateverTheLoop ==
    \A r \in Reqs :
        (/\ pc[r] \in {"injectAwait", "done"}
         /\ Len(cmdKeys[r]) = 3
         /\ \A i \in 1..3 : cmdKeys[r][i].ok)
        => /\ injectResult[r] = Result(TRUE, "", "", <<>>)
           /\ polled[r] > 0
           /\ \/ rule[r] \in {"error", "captureFailed", "prompt"}
              \/ attempts[r] = maxAttempts

C34_Witness ==
    \E r \in Reqs :
        /\ pc[r] = "injectAwait"
        /\ Len(cmdKeys[r]) = 3
        /\ \A i \in 1..3 : cmdKeys[r][i].ok
        /\ rule[r] = "error"
        /\ polled[r] < maxAttempts
        /\ injectResult[r].success

\* C35: createSession runs the primary start command and runs the fallback
\* only if the primary failed; it returns an error result only if both
\* failed; after a successful start it reports success only when the settle
\* delay is over, so the request sends no keystroke to the session it created
\* before that delay.
C35_CreateThenSettle ==
    /\ [](\A r \in Reqs :
            /\ creations[r] \in 0..2
            /\ creations[r] = 1 => starts["clauderun"]
            /\ creations[r] = 2 => ~starts["clauderun"]
            /\ creations[r] > 0 =>
                   (createResult[r].success <=> \E c \in StartCommands : starts[c])
            /\ (pc[r] = "createAwait" \/ result[r].error = "session_creation_failed")
                   => /\ creations[r] = 2
                      /\ \A c \in StartCommands : ~starts[c]
                      /\ ~createResult[r].success
            /\ pc[r] = "createSettle"
                   => /\ createResult[r].success
                      /\ cmdKeys[r] = <<>>
                      /\ "send-keys" \notin made[r])
    /\ [][\A r \in Reqs :
            (creations[r] > 0 /\ cmdKeys[r] = <<>> /\ cmdKeys'[r] # <<>>)
            => pc[r] = "createSettle"]_vars

C35_Witness ==
    \E r \in Reqs :
        /\ creations[r] = 2
        /\ ~starts["clauderun"]
        /\ starts["claude"]
        /\ createResult[r].success
        /\ Len(cmdKeys[r]) = 3
        /\ result[r].success

\* C36: while answering a prompt the handler ignores what the send of the
\* answer key returned: when sending "2", "1" or "y" fails, the execute key is
\* sent all the same after the 300 ms wait and the polling goes on, so the
\* execute key reaches the session without its answer key.
C36_AnswerResultIgnored ==
    [][\A r \in Reqs :
          (pc[r] = "answerWait" /\ ~answerOk[r] /\ pc'[r] # pc[r])
          => /\ keys[r] = <<answerKey(rule[r])>>
             /\ keys'[r] = <<answerKey(rule[r]), KeyEnter>>
             /\ injectResult'[r] = NoResult
             /\ IF rule[r] = "multi"
                THEN pc'[r] = "settle"
                ELSE \/ pc'[r] = "pollWait" /\ attempts'[r] = attempts[r] + 1
                     \/ pc'[r] = "finalAwait" /\ attempts[r] = maxAttempts]_vars

C36_Witness ==
    \E r \in Reqs :
        /\ ~answerOk[r]
        /\ rule[r] = "yesno"
        /\ keys[r] = <<<<"y">>, KeyEnter>>
        /\ pc[r] = "pollWait"
        /\ polled[r] = 1

\* C37: a ControllerInjector.injectCommand request consumes one rate-limit
\* slot of its session exactly when it passed command validation and session
\* name sanitization and the limiter admitted it; a request rejected by
\* validation or sanitization records nothing, and an admitted request keeps
\* its slot when the injection then fails.
C37_SlotIffAdmitted ==
    [][now' = now =>
          LET name == IF Falsy(ctlSessionArg') THEN Str(DefaultSession)
                      ELSE ctlSessionArg'
              passed == /\ validateCommand(ctlCommand').valid
                        /\ ~_sanitizeSessionName(name).threw
              before == Recorded(sessionMap, ctlSession')
              after == Recorded(sessionMap', ctlSession')
              live == filterRecent(before, now - WindowMs)
              admitted == passed /\ Len(live) < MaxCommands
          IN  /\ (ctlLimiter' = "admitted") <=> admitted
              /\ (ctlLimiter' = "notAsked") <=> ~passed
              /\ after = IF admitted THEN Append(live, now)
                         ELSE IF passed THEN live
                         ELSE before
              /\ ~passed => sessionMap' = sessionMap
              /\ \A k \in DOMAIN sessionMap' \ {ctlSession'} :
                     k \in DOMAIN sessionMap /\ sessionMap'[k] = sessionMap[k]]_vars

C37_Witness ==
    /\ ctlLimiter = "admitted"
    /\ ctlStatus = "threw"
    /\ ctlError = "tmux_session_not_found"
    /\ Recorded(sessionMap, ctlSession) = <<now>>

\* the place of a step among the steps taken for the last update, 0 when it
\* was not taken
StepAt(name) ==
    IF \E i \in DOMAIN tgSteps : tgSteps[i] = name
    THEN CHOOSE i \in DOMAIN tgSteps : tgSteps[i] = name
    ELSE 0

\* C38: no command is injected on behalf of an unauthorized chat: for every
\* update, text message or callback query, processCommand is reached only
\* after the update's chat (or user) passed the authorization check.
C38_ProcessOnlyAuthorized ==
    StepAt("processCommand") > 0 =>
        _isAuthorized(IF tgUpdate.kind = "message" THEN tgUpdate.user
                      ELSE tgUpdate.chat,
                      tgUpdate.chat, tgConfig.whitelist)

\* C39: a command sent with the token of a session whose expiresAt lies in
\* the past is never injected: the handler replies that the token has
\* expired, removes the session and makes no injector call; and every
\* injection comes after the token validation, the command validation, the
\* session lookup and the expiry check, in this order.
C39_ExpiredNeverInjected ==
    [][(now' = now /\ StepAt("inject")' > 0) =>
          /\ \A t \in DOMAIN tgSessions : ~isSessionExpired(tgSessions[t], now)
          /\ 0 < StepAt("validateToken")'
          /\ StepAt("validateToken")' < StepAt("validateCommand")'
          /\ StepAt("validateCommand")' < StepAt("findSession")'
          /\ StepAt("findSession")' < StepAt("isSessionExpired")'
          /\ StepAt("isSessionExpired")' < StepAt("inject")']_vars

\* C40: a cleanup sweep never deletes a young file: every file that a step
\* removes from the temp directory is, at that moment, older than the
\* threshold, also when an injection in flight has just written it.
C40_SweepDeletesOnlyOld ==
    [][\A f \in DOMAIN files :
          f \notin DOMAIN files' => now - files[f] > MaxFileAge]_vars

====
